---- MODULE Spec2Model ----
(***************************************************************************)
(* A model of the mutable data pack writer (MutableDataPack), the record   *)
(* parser and reader of published packs (DataEntry, DataPack).             *)
(*                                                                         *)
(* Bytes are modelled as a sequence of fields ("tokens"): a token is one   *)
(* field of the on-disk layout, with its type, its value and its width in  *)
(* bytes.  Offsets and sizes are byte counts computed from the widths.     *)
(***************************************************************************)
EXTENDS Integers, Sequences, FiniteSets, TLC

VARIABLES
    st,        \* "unborn" | "open" | "failed" | "dropped": the writer object
    inner,     \* the MutableDataPackInner behind the mutex
    fs,        \* the destination directory: file name -> file content
    tmpSeq,    \* number of temporary files created so far (names are unique)
    ret,       \* the last call and what it returned
    log,       \* ghost: the (delta, metadata) pairs added to the live inner
    pubLog,    \* ghost: for each published pack, the pairs it was built from
    nAdds,     \* ghost: number of add calls so far
    nFlush,    \* ghost: number of flush calls so far
    lock,      \* the mutex around inner: 0 when free, else the thread holding it
    pc,        \* for each thread, where it is in the call it is making
    loc,       \* for each thread, the arguments and locals of that call
    sel,       \* a SelectAll over streams, and what its last call returned
    rmap,      \* a RegenerateMapping over a base mapping, and its last call
    batch,     \* a call of the default batch_derive and how far it has come
    parsed,    \* a DataEntry parsed from a buffer, and its last call
    repo       \* a store directory and the last open_dag_commits on it

vars == <<st, inner, fs, tmpSeq, ret, log, pubLog, nAdds, nFlush, lock, pc, loc,
          sel, rmap, batch, parsed, repo>>

\* The variables of the threads that share the writer.
conc == <<lock, pc, loc>>

\* The variables of the writer and its threads.
packVars == <<st, inner, fs, tmpSeq, ret, log, pubLog, nAdds, nFlush, lock, pc, loc>>

\* The variables of the objects that are not the writer.
others == <<sel, rmap, batch, parsed, repo>>

---------------------------------------------------------------------------
(* Bounds of the model *)

MaxAdds == 2
MaxFlush == 2
MaxChainAdds == 3
MaxKeys == 2

---------------------------------------------------------------------------
(* Program constants *)

U16Max == 65535

\* u64::MAX, with the 64 bits of a u64 scaled to 30 so that a position plus a
\* declared length can be computed before it is reduced to the width.
U64Max == 1073741823
HgIdLen == 20
NullId == 0
VersionOne == 1
VersionZero == 0

\* Option::None for integer-valued options (Option<u32>, Option<u64>, Option<HgId>)
None == 0 - 1

\* Option<Key>::None
NoKey == [path |-> "", hgid |-> None]

Key_new(path, hgid) == [path |-> path, hgid |-> hgid]

\* Metadata::default()
DefaultMetadata == [flags |-> None, size |-> None]

---------------------------------------------------------------------------
(* Inputs *)

\* Repository paths, by name; PathLen gives the length of as_byte_slice().
PathLen(p) ==
    CASE p = "" -> 0
      [] p = "a" -> 1
      [] p = "b" -> 1
      [] p = "L-1" -> U16Max - 1
      [] p = "L" -> U16Max
      [] p = "L+1" -> U16Max + 1

\* Payloads, by name; DataLen gives the number of bytes.
DataLen(d) ==
    CASE d = "d1" -> 3
      [] d = "d2" -> 4

---------------------------------------------------------------------------
(* Bytes *)

Tok(t, s, i, n) == [t |-> t, s |-> s, i |-> i, n |-> n]

RECURSIVE ByteLen(_)
ByteLen(buf) == IF buf = <<>> THEN 0 ELSE Head(buf).n + ByteLen(Tail(buf))

\* Index of the token that starts at byte offset off, Len(buf) + 1 for the
\* end of the buffer, 0 when off is past the end or inside a token.
RECURSIVE TokAt(_, _, _, _)
TokAt(buf, off, i, pos) ==
    IF pos = off THEN i
    ELSE IF i > Len(buf) \/ pos > off THEN 0
    ELSE TokAt(buf, off, i + 1, pos + buf[i].n)

\* lz4_pyframe::compress: a 4-byte length prefix and the lz4 block; payloads
\* this short are stored as one literal run behind a 1-byte block token.
CompressedLen(d) == 4 + 1 + DataLen(d)

compress(d) == Tok("lz4", d, DataLen(d), CompressedLen(d))

decompress(tok) == tok.s

---------------------------------------------------------------------------
(* Metadata block: a 4-byte list length, then one item per present field: *)
(* a 1-byte key, a 2-byte value length, the value.                         *)

FlagsLen == 4
SizeLen == 8

MetaItem(tag, v, n) == <<Tok("u8", tag, 0, 1), Tok("u16", "", n, 2), Tok("val", "", v, n)>>

Metadata_write(m) ==
    LET items == (IF m.flags # None THEN MetaItem("f", m.flags, FlagsLen) ELSE <<>>)
                 \o (IF m.size # None THEN MetaItem("s", m.size, SizeLen) ELSE <<>>)
    IN  <<Tok("u32", "", ByteLen(items), 4)>> \o items

IsTok(buf, i, t) == i >= 1 /\ i <= Len(buf) /\ buf[i].t = t

RECURSIVE ReadItems(_, _, _, _)
ReadItems(buf, j, remaining, m) ==
    IF remaining = 0 THEN [tag |-> "Ok", meta |-> m, next |-> j]
    ELSE IF IsTok(buf, j, "u8") /\ IsTok(buf, j + 1, "u16") /\ IsTok(buf, j + 2, "val")
            /\ buf[j + 2].n = buf[j + 1].i /\ 3 + buf[j + 1].i <= remaining
         THEN ReadItems(buf, j + 3, remaining - (3 + buf[j + 1].i),
                        IF buf[j].s = "f" THEN [m EXCEPT !.flags = buf[j + 2].i]
                        ELSE IF buf[j].s = "s" THEN [m EXCEPT !.size = buf[j + 2].i]
                        ELSE m)
         ELSE [tag |-> "Err"]

Metadata_read(buf, j) ==
    IF IsTok(buf, j, "u32") THEN ReadItems(buf, j + 1, buf[j].i, DefaultMetadata)
    ELSE [tag |-> "Err"]

---------------------------------------------------------------------------
(* DataEntry::new: parse one record of buf, starting at byte offset.       *)
(* "Err" is an error value; "Garbage" stands for a parse that starts       *)
(* inside a field or reads a field of another type, whose outcome this     *)
(* representation of bytes does not determine.                             *)

Pos(buf, i) == ByteLen(SubSeq(buf, 1, i - 1))

\* The call does not return: the thread panics.
Panic == [tag |-> "Panic"]

\* How the crate was compiled: with overflow checks (the default of debug
\* and test builds), where an addition that overflows panics, or without
\* (the default of release builds), where it wraps.
Builds == {"checked", "wrapping"}

Missing(buf, i) == IF i = 0 \/ i > Len(buf) THEN [tag |-> "Err"] ELSE [tag |-> "Garbage"]

DataEntry_new_in(build, buf, offset, version) ==
    LET i0 == TokAt(buf, offset, 1, 0) IN
    IF ~IsTok(buf, i0, "u16") THEN Missing(buf, i0) ELSE
    LET filename_len == buf[i0].i
        named == filename_len > 0
        i1 == IF named THEN i0 + 2 ELSE i0 + 1
    IN
    IF Pos(buf, i0 + 1) + filename_len > ByteLen(buf) THEN [tag |-> "Err"] ELSE
    IF named /\ ~(IsTok(buf, i0 + 1, "path") /\ buf[i0 + 1].n = filename_len)
    THEN [tag |-> "Garbage"] ELSE
    IF ~IsTok(buf, i1, "hgid") THEN Missing(buf, i1) ELSE
    IF ~IsTok(buf, i1 + 1, "hgid") THEN Missing(buf, i1 + 1) ELSE
    IF ~IsTok(buf, i1 + 2, "u64") THEN Missing(buf, i1 + 2) ELSE
    LET delta_len == buf[i1 + 2].i
        position == Pos(buf, i1 + 3)
        end == (position + delta_len) % (U64Max + 1)
    IN
    IF position + delta_len > U64Max /\ build = "checked" THEN Panic ELSE
    IF end < position \/ end > ByteLen(buf) THEN [tag |-> "Err"] ELSE
    IF ~(IsTok(buf, i1 + 3, "lz4") /\ buf[i1 + 3].n = delta_len)
    THEN [tag |-> "Garbage"] ELSE
    LET md == IF version = VersionOne THEN Metadata_read(buf, i1 + 4)
              ELSE [tag |-> "Ok", meta |-> DefaultMetadata, next |-> i1 + 4]
    IN
    IF md.tag # "Ok" THEN [tag |-> "Err"] ELSE
    [tag |-> "Ok",
     offset |-> offset,
     filename |-> IF named THEN buf[i0 + 1].s ELSE "",
     node |-> buf[i1].i,
     delta_base |-> buf[i1 + 1].i,
     compressed_data |-> buf[i1 + 3],
     metadata |-> md.meta,
     next_offset |-> Pos(buf, md.next)]

\* DataEntry::new on a buffer whose declared lengths do not overflow, where
\* the two builds agree.
DataEntry_new(buf, offset, version) == DataEntry_new_in("wrapping", buf, offset, version)

\* DataEntry::delta
DataEntry_delta(entry) == decompress(entry.compressed_data)

---------------------------------------------------------------------------
(* Results *)

OkUnit == [tag |-> "Ok"]
OkNone == [tag |-> "None"]
Err(e) == [tag |-> "Err", e |-> e]

---------------------------------------------------------------------------
(* The directory, and the buffered writer over a temporary file            *)

\* An insert that keeps the value a key already has.
Put_KeepFirst(f, k, v) ==
    IF k \in DOMAIN f THEN f ELSE [x \in DOMAIN f \cup {k} |-> IF x = k THEN v ELSE f[x]]

Put(f, k, v) == [x \in DOMAIN f \cup {k} |-> IF x = k THEN v ELSE f[x]]
Remove(f, k) == [x \in DOMAIN f \ {k} |-> f[x]]

TmpName(n) == [kind |-> "tmp", id |-> n, stem |-> <<>>]
PackName(stem, ext) == [kind |-> ext, id |-> 0, stem |-> stem]

DataFile(bytes) == [bytes |-> bytes, idx |-> <<>>]
IndexFile(idx) == [bytes |-> <<>>, idx |-> idx]

\* PackWriter::flush_inner: the buffered bytes reach the file.
flush_inner(in, dir) ==
    [inner |-> [in EXCEPT !.pending = <<>>],
     fs |-> [dir EXCEPT ![TmpName(in.tmp)] =
                DataFile(dir[TmpName(in.tmp)].bytes \o in.pending)]]

\* seek(SeekFrom::Start(off)) and read_exact of size bytes.
ReadExact(bytes, off, size) ==
    LET i == TokAt(bytes, off, 1, 0)
        j == TokAt(bytes, off + size, 1, 0)
    IN  IF off + size > ByteLen(bytes) THEN [tag |-> "Err", data |-> <<>>]
        ELSE IF i = 0 \/ j = 0 THEN [tag |-> "Ok", data |-> <<Tok("torn", "", 0, size)>>]
        ELSE [tag |-> "Ok", data |-> SubSeq(bytes, i, j - 1)]

---------------------------------------------------------------------------
(* MutableDataPackInner *)

NoInner == [tmp |-> None, pending |-> <<>>, bytes_written |-> 0,
            mem_index |-> <<>>, hasher |-> <<>>]

VersionByte(version) == <<Tok("u8", "", version, 1)>>

\* A constructor that writes the version byte but does not hash it.
Inner_new_NoHash(tmp, version) ==
    [tmp |-> tmp,
     pending |-> VersionByte(version),
     bytes_written |-> 1,
     mem_index |-> <<>>,
     hasher |-> <<>>]

\* MutableDataPackInner::new, after the directory and version checks.
Inner_new(tmp, version) ==
    [tmp |-> tmp,
     pending |-> VersionByte(version),
     bytes_written |-> 1,
     mem_index |-> <<>>,
     hasher |-> VersionByte(version)]

\* The guard of add.
PathTooLong(len) == len >= U16Max

\* A writer that serializes the default metadata whatever add was given.
EntryBytes_DefaultMeta(delta, metadata) ==
    LET path == delta.key.path
        compressed == compress(delta.data)
    IN  <<Tok("u16", "", PathLen(path) % (U16Max + 1), 2)>>
        \o (IF PathLen(path) > 0 THEN <<Tok("path", path, 0, PathLen(path))>> ELSE <<>>)
        \o <<Tok("hgid", "", delta.key.hgid, HgIdLen)>>
        \o <<Tok("hgid", "", IF delta.base = NoKey THEN NullId ELSE delta.base.hgid, HgIdLen)>>
        \o <<Tok("u64", "", compressed.n, 8)>>
        \o <<compressed>>
        \o Metadata_write(DefaultMetadata)

\* The record add serializes into buf.
EntryBytes(delta, metadata) ==
    LET path == delta.key.path
        compressed == compress(delta.data)
    IN  <<Tok("u16", "", PathLen(path) % (U16Max + 1), 2)>>
        \o (IF PathLen(path) > 0 THEN <<Tok("path", path, 0, PathLen(path))>> ELSE <<>>)
        \o <<Tok("hgid", "", delta.key.hgid, HgIdLen)>>
        \o <<Tok("hgid", "", IF delta.base = NoKey THEN NullId ELSE delta.base.hgid, HgIdLen)>>
        \o <<Tok("u64", "", compressed.n, 8)>>
        \o <<compressed>>
        \o Metadata_write(metadata)

\* A hasher fed only the compressed payloads.
HashedBytes_Payload(buf) == SelectSeq(buf, LAMBDA t : t.t = "lz4")

\* What add feeds to the hasher for a record.
HashedBytes(buf) == buf

\* A location whose size is the length of the raw payload.
Location_RawSize(delta, offset, buf) ==
    [delta_base |-> IF delta.base = NoKey THEN None ELSE delta.base.hgid,
     offset |-> offset,
     size |-> DataLen(delta.data)]

\* The DeltaLocation add records.
Location(delta, offset, buf) ==
    [delta_base |-> IF delta.base = NoKey THEN None ELSE delta.base.hgid,
     offset |-> offset,
     size |-> ByteLen(buf)]

\* add() that writes, hashes and indexes the record before it tests the path.
Inner_add_WriteFirst(in, delta, metadata) ==
    LET offset == in.bytes_written
        buf == EntryBytes(delta, metadata)
    IN  [inner |-> [in EXCEPT
                       !.pending = @ \o buf,
                       !.bytes_written = @ + ByteLen(buf),
                       !.hasher = @ \o HashedBytes(buf),
                       !.mem_index = Put(@, delta.key.hgid, Location(delta, offset, buf))],
         res |-> IF PathTooLong(PathLen(delta.key.path))
                 THEN Err("delta path is longer than 2^16")
                 ELSE OkUnit]

Inner_add(in, delta, metadata) ==
    IF PathTooLong(PathLen(delta.key.path))
    THEN [inner |-> in, res |-> Err("delta path is longer than 2^16")]
    ELSE LET offset == in.bytes_written
             buf == EntryBytes(delta, metadata)
         IN  [inner |-> [in EXCEPT
                            !.pending = @ \o buf,
                            !.bytes_written = @ + ByteLen(buf),
                            !.hasher = @ \o HashedBytes(buf),
                            !.mem_index = Put(@, delta.key.hgid, Location(delta, offset, buf))],
              res |-> OkUnit]

\* The index lookup of read_entry.
IndexKey(key) == key.hgid

\* A read that does not flush the buffered writes first.
ReadFlush_None(in, dir) == [inner |-> in, fs |-> dir]

\* read_entry empties the writer's buffer before it reads the file.
ReadFlush(in, dir) == flush_inner(in, dir)

\* A read_entry that labels the delta with the path stored in the record.
EntryDelta_StoredPath(key, entry) ==
    [data |-> DataEntry_delta(entry),
     base |-> IF entry.delta_base = NullId THEN NoKey
              ELSE Key_new(entry.filename, entry.delta_base),
     key |-> Key_new(entry.filename, entry.node)]

\* The (Delta, Metadata) read_entry builds from a parsed entry.
EntryDelta(key, entry) ==
    [data |-> DataEntry_delta(entry),
     base |-> IF entry.delta_base = NullId THEN NoKey
              ELSE Key_new(key.path, entry.delta_base),
     key |-> Key_new(key.path, entry.node)]

Inner_read_entry(in, dir, key) ==
    IF IndexKey(key) \notin DOMAIN in.mem_index
    THEN [inner |-> in, fs |-> dir, res |-> OkNone]
    ELSE LET location == in.mem_index[IndexKey(key)]
             fl == ReadFlush(in, dir)
             rd == ReadExact(fl.fs[TmpName(in.tmp)].bytes, location.offset, location.size)
             entry == DataEntry_new(rd.data, 0, VersionOne)
         IN  [inner |-> fl.inner, fs |-> fl.fs,
              res |-> IF rd.tag = "Err" THEN Err("io")
                      ELSE IF entry.tag = "Err" THEN Err("parse")
                      ELSE IF entry.tag = "Garbage" THEN [tag |-> "Garbage"]
                      ELSE [tag |-> "Some",
                            delta |-> EntryDelta(key, entry),
                            meta |-> entry.metadata]]

---------------------------------------------------------------------------
(* DataIndex: the index file built at publish time, and its lookup         *)

RECURSIVE SortedIds(_)
SortedIds(S) ==
    IF S = {} THEN <<>>
    ELSE LET m == CHOOSE x \in S : \A y \in S : x <= y
         IN  <<m>> \o SortedIds(S \ {m})

IndexOf(seq, x) ==
    IF \E i \in 1..Len(seq) : seq[i] = x
    THEN (CHOOSE i \in 1..Len(seq) : seq[i] = x) - 1
    ELSE 0 - 1

DataIndex_write(mem_index) ==
    LET ids == SortedIds(DOMAIN mem_index)
    IN  [i \in 1..Len(ids) |->
            [node |-> ids[i],
             delta_base_pos |-> IF mem_index[ids[i]].delta_base = None THEN 0 - 1
                                ELSE IndexOf(ids, mem_index[ids[i]].delta_base),
             pack_entry_offset |-> mem_index[ids[i]].offset,
             pack_entry_size |-> mem_index[ids[i]].size]]

DataIndex_get_entry(index, node) ==
    IF \E i \in 1..Len(index) : index[i].node = node
    THEN [tag |-> "Ok", entry |-> index[CHOOSE i \in 1..Len(index) : index[i].node = node]]
    ELSE [tag |-> "Err"]

---------------------------------------------------------------------------
(* Publishing: MutablePack::build_files for the inner, and close_pack      *)

\* The name build_files gives the pack: the digest of the hashed bytes.
\* A digest is modelled by the byte stream it is the digest of.
Digest(hashed) == hashed

\* The files a successful close_pack leaves in the directory.
Inner_close_pack(old, dir) ==
    LET fl == flush_inner(old, dir)
        data == fl.fs[TmpName(old.tmp)]
        stem == Digest(old.hasher)
        moved == Remove(fl.fs, TmpName(old.tmp))
    IN  [fs |-> Put(Put(moved, PackName(stem, "datapack"), data),
                    PackName(stem, "dataidx"), IndexFile(DataIndex_write(old.mem_index))),
         stem |-> stem]

\* A writer whose staging file outlives it.
Inner_drop_Keep(in, dir) == dir

\* Dropping an inner deletes its temporary file.
Inner_drop(in, dir) == Remove(dir, TmpName(in.tmp))

\* A flush that leaves the old writer in the mutex.
Replaced_Keep(old_inner, new_inner) == old_inner

\* mem::replace(&mut *guard, new_inner): what the mutex holds afterwards.
Replaced(old_inner, new_inner) == new_inner

\* A build_files that never reports an empty pack.
IsEmptyPack_Never(in) == FALSE

\* Whether build_files reports an empty pack.
IsEmptyPack(in) == DOMAIN in.mem_index = {}

---------------------------------------------------------------------------
(* DataPack: the reader of a published pack                                *)

\* An open that does not look at the length of the data file.
DataPack_new_NoLenCheck(dir, stem) ==
    IF PackName(stem, "datapack") \notin DOMAIN dir THEN Err("io")
    ELSE IF PackName(stem, "dataidx") \notin DOMAIN dir THEN Err("io")
    ELSE [tag |-> "Ok",
          mmap |-> dir[PackName(stem, "datapack")].bytes,
          version |-> IF dir[PackName(stem, "datapack")].bytes = <<>> THEN None
                      ELSE dir[PackName(stem, "datapack")].bytes[1].i,
          index |-> dir[PackName(stem, "dataidx")].idx]

\* DataPack::new(path)
DataPack_new(dir, stem) ==
    IF PackName(stem, "datapack") \notin DOMAIN dir THEN Err("io")
    ELSE IF ByteLen(dir[PackName(stem, "datapack")].bytes) < 1 THEN Err("empty datapack")
    ELSE IF PackName(stem, "dataidx") \notin DOMAIN dir THEN Err("io")
    ELSE [tag |-> "Ok",
          mmap |-> dir[PackName(stem, "datapack")].bytes,
          version |-> dir[PackName(stem, "datapack")].bytes[1].i,
          index |-> dir[PackName(stem, "dataidx")].idx]

DataPack_len(pack) == ByteLen(pack.mmap)

DataPack_read_entry(pack, offset) == DataEntry_new(pack.mmap, offset, pack.version)

DataPack_get_meta(pack, key) ==
    LET index_entry == DataIndex_get_entry(pack.index, key.hgid) IN
    IF index_entry.tag = "Err" THEN Err("not found")
    ELSE LET e == DataPack_read_entry(pack, index_entry.entry.pack_entry_offset)
         IN  IF e.tag = "Ok" THEN [tag |-> "Ok", meta |-> e.metadata] ELSE Err("parse")

\* DataPack::get and DataPack::get_delta_chain are unimplemented!(): the
\* call panics.
DataPack_get(pack, key) == Panic
DataPack_get_delta_chain(pack, key) == Panic

\* The filter of DataPack::get_missing.
DataPack_is_missing(pack, key) == DataIndex_get_entry(pack.index, key.hgid).tag = "Err"

DataPack_get_missing(pack, keys) == SelectSeq(keys, LAMBDA k : DataPack_is_missing(pack, k))

---------------------------------------------------------------------------
(* The store facade over the writer: HgIdDataStore and LocalStore          *)

\* MutableDataPack::get: the raw content is not served by a pack.
Unsupported == Err("DataPack doesn't support raw get(), only getdeltachain")
get(in, dir, key) == [inner |-> in, fs |-> dir, res |-> Unsupported]

get_delta(in, dir, key) ==
    LET r == Inner_read_entry(in, dir, key)
    IN  [inner |-> r.inner, fs |-> r.fs,
         res |-> IF r.res.tag = "Some" THEN [tag |-> "Some", delta |-> r.res.delta]
                 ELSE r.res]

get_meta(in, dir, key) ==
    LET r == Inner_read_entry(in, dir, key)
    IN  [inner |-> r.inner, fs |-> r.fs,
         res |-> IF r.res.tag = "Some" THEN [tag |-> "Some", meta |-> r.res.meta]
                 ELSE r.res]

\* A loop that gives up its partial chain when a base is absent.
ChainStop_Drop(chain, r) == IF r.tag = "None" THEN OkNone ELSE r

\* What get_delta_chain returns when a read finds no entry or fails.
ChainStop(chain, r) ==
    IF r.tag = "None"
    THEN (IF chain = <<>> THEN OkNone ELSE [tag |-> "Some", chain |-> chain])
    ELSE (IF chain = <<>> THEN r ELSE [tag |-> "Some", chain |-> chain])

\* A loop that builds the chain base first.
ChainPush_Front(chain, delta) == <<delta>> \o chain

\* The element get_delta_chain pushes for a delta it read.
ChainPush(chain, delta) == Append(chain, delta)

\* The loop of get_delta_chain.  The reads change nothing after the first
\* flush, so a key met a second time is met for ever: the loop does not end.
RECURSIVE ChainLoop(_, _, _, _, _)
ChainLoop(in, dir, next_key, chain, seen) ==
    IF next_key = NoKey THEN [inner |-> in, fs |-> dir, res |-> [tag |-> "Some", chain |-> chain]]
    ELSE IF next_key \in seen THEN [inner |-> in, fs |-> dir, res |-> [tag |-> "Diverges"]]
    ELSE LET r == Inner_read_entry(in, dir, next_key) IN
         IF r.res.tag = "Some"
         THEN ChainLoop(r.inner, r.fs, r.res.delta.base, ChainPush(chain, r.res.delta),
                        seen \cup {next_key})
         ELSE [inner |-> r.inner, fs |-> r.fs, res |-> ChainStop(chain, r.res)]

get_delta_chain(in, dir, key) == ChainLoop(in, dir, key, <<>>, {})

\* A StoreKey is an HgId key or a content key.
StoreKey_HgId(key) == [kind |-> "HgId", key |-> key]
StoreKey_Content(key) == [kind |-> "Content", key |-> key]

\* A filter that keeps the keys the index holds.
IsMissing_Inverted(in, k) ==
    IF k.kind = "HgId" THEN k.key.hgid \in DOMAIN in.mem_index ELSE TRUE

\* The filter of get_missing.
IsMissing(in, k) ==
    IF k.kind = "HgId" THEN k.key.hgid \notin DOMAIN in.mem_index ELSE TRUE

get_missing(in, keys) == SelectSeq(keys, LAMBDA k : IsMissing(in, k))

---------------------------------------------------------------------------
(* RegenerateMapping: a mapping that ignores what its base holds for some   *)
(* changesets until they are put again                                     *)

\* A base mapping that holds nothing: changeset id -> derived value.
NoBase == <<>>

\* RegenerateMapping::new(base)
RegenerateMapping_new(base) == [regenerate |-> {}, base |-> base]

\* RegenerateMapping::regenerate(csids)
regenerate(m, csids) == [m EXCEPT !.regenerate = @ \cup csids]

\* A get that forwards every id it is asked for.
Retain_Nothing(m, csids) == csids

\* csids.retain(|id| !regenerate.contains(&id))
Retain(m, csids) == SelectSeq(csids, LAMBDA id : id \notin m.regenerate)

\* regenerate.remove(&csid)
Forget(m, csid) == [m EXCEPT !.regenerate = @ \ {csid}]

\* base.get(ctx, csids): what the base holds for the ids it is asked for.
Base_get(base, csids) ==
    [c \in {csids[i] : i \in DOMAIN csids} \cap DOMAIN base |-> base[c]]

\* base.put(ctx, csid, id)
Base_put(base, csid, id) ==
    [c \in DOMAIN base \cup {csid} |-> IF c = csid THEN id ELSE base[c]]

\* No call of that kind is in flight.
NoCall == [op |-> "none"]

---------------------------------------------------------------------------
(* SelectAll: an unbounded set of streams                                  *)

\* What a stream produces, in order: items, and errors.
Item(v) == [tag |-> "Item", v |-> v]
Error(e) == [tag |-> "Error", v |-> e]

\* A stream: its identity, what it has yet to produce, and whether its
\* poll has been called.
Stream(id, items) == [id |-> id, items |-> items, polled |-> FALSE]

\* Stream::into_future(): the future of the stream's next element.
StreamFuture(stream) == [stream |-> stream]

\* Poll<Option<Item>, Error>
NotReady == [tag |-> "Ok", async |-> "NotReady"]
ReadySome(item) == [tag |-> "Ok", async |-> "Ready", some |-> TRUE, item |-> item]
ReadyNone == [tag |-> "Ok", async |-> "Ready", some |-> FALSE]

\* No future of the set completes in this poll.
NoPick == 0

\* SelectAll::new()
SelectAll_new == [inner |-> {}]

\* SelectAll::len()
len(s) == Cardinality(s.inner)

\* SelectAll::is_empty()
is_empty(s) == s.inner = {}

\* A push that polls the stream it is given.
push_Polling(s, stream) ==
    [s EXCEPT !.inner = @ \cup {StreamFuture([stream EXCEPT !.polled = TRUE])}]

\* SelectAll::push(stream)
push(s, stream) == [s EXCEPT !.inner = @ \cup {StreamFuture(stream)}]

\* StreamFuture::poll() of a stream that is ready: the next element, or
\* the end, or an error, each with the rest of the stream.
StreamFuture_poll(f) ==
    LET stream == [f.stream EXCEPT !.polled = TRUE] IN
    IF stream.items = <<>>
    THEN [tag |-> "Ready", some |-> FALSE, remaining |-> stream]
    ELSE LET rest == [stream EXCEPT !.items = Tail(@)] IN
         IF Head(stream.items).tag = "Error"
         THEN [tag |-> "Err", e |-> Head(stream.items).v, remaining |-> rest]
         ELSE [tag |-> "Ready", some |-> TRUE, item |-> Head(stream.items).v,
               remaining |-> rest]

\* FuturesUnordered::poll().  woken are the futures it polls that are not
\* ready; pick is the future it polls that completes, if any: that future
\* leaves the set and its output is returned.
FuturesUnordered_poll(fu, woken, pick) ==
    IF fu = {}
    THEN [inner |-> fu, tag |-> "ReadyNone"]
    ELSE LET wake(f) == IF f.stream.id \in woken
                        THEN StreamFuture([f.stream EXCEPT !.polled = TRUE])
                        ELSE f
         IN  IF pick = NoPick
             THEN [inner |-> {wake(f) : f \in fu}, tag |-> "NotReady"]
             ELSE LET done == CHOOSE f \in fu : f.stream.id = pick
                  IN  [inner |-> {wake(f) : f \in fu \ {done}},
                       tag |-> "ReadySome",
                       output |-> StreamFuture_poll(done)]

\* A poll that empties the set when a stream fails.
poll_ClearOnError(s, woken, pick) ==
    LET r == FuturesUnordered_poll(s.inner, woken, pick)
        rest == [inner |-> r.inner]
    IN  IF r.tag = "NotReady" THEN [set |-> rest, res |-> NotReady]
        ELSE IF r.tag = "ReadySome" /\ r.output.tag = "Err"
        THEN [set |-> SelectAll_new, res |-> Err(r.output.e)]
        ELSE IF r.tag = "ReadySome" /\ r.output.some
        THEN [set |-> push(rest, r.output.remaining),
              res |-> ReadySome(r.output.item)]
        ELSE [set |-> rest, res |-> ReadyNone]

\* Stream for SelectAll::poll()
poll(s, woken, pick) ==
    LET r == FuturesUnordered_poll(s.inner, woken, pick)
        rest == [inner |-> r.inner]
    IN  IF r.tag = "NotReady" THEN [set |-> rest, res |-> NotReady]
        ELSE IF r.tag = "ReadySome" /\ r.output.tag = "Err"
        THEN [set |-> rest, res |-> Err(r.output.e)]
        ELSE IF r.tag = "ReadySome" /\ r.output.some
        THEN [set |-> push(rest, r.output.remaining),
              res |-> ReadySome(r.output.item)]
        ELSE [set |-> rest, res |-> ReadyNone]

\* select_all(streams)
RECURSIVE select_all(_)
select_all(streams) ==
    IF streams = <<>> THEN SelectAll_new
    ELSE push(select_all(SubSeq(streams, 1, Len(streams) - 1)),
              streams[Len(streams)])

---------------------------------------------------------------------------
(* The objects before their first call                                     *)

\* No batch_derive has been called.
NoBatch == [op |-> "none"]

\* No DataEntry has been parsed.
NoEntry == [op |-> "none"]

\* open_dag_commits has not been called.
NoRepo == [op |-> "none"]

---------------------------------------------------------------------------
(* Actions *)

\* The threads that share one writer, and a thread between calls.
Threads == {1, 2}
NoLocals == [op |-> "none"]

Init ==
    /\ st = "unborn"
    /\ inner = NoInner
    /\ fs = <<>>
    /\ tmpSeq = 0
    /\ ret = [op |-> "none"]
    /\ log = <<>>
    /\ pubLog = <<>>
    /\ nAdds = 0
    /\ nFlush = 0
    /\ lock = 0
    /\ pc = [t \in Threads |-> "idle"]
    /\ loc = [t \in Threads |-> NoLocals]
    /\ sel = [set |-> SelectAll_new, op |-> "new", res |-> OkUnit,
              before |-> 0, pushed |-> <<>>]
    /\ rmap = [map |-> RegenerateMapping_new(NoBase), op |-> "new", res |-> OkUnit,
               getting |-> NoCall, putting |-> NoCall, last |-> NoCall,
               owed |-> {}, stale |-> {}, nCalls |-> 0]
    /\ batch = NoBatch
    /\ parsed = NoEntry
    /\ repo = NoRepo

\* MutableDataPack::new(dir, version)
New(is_dir, version) ==
    /\ UNCHANGED <<conc, others>>
    /\ st = "unborn"
    /\ IF ~is_dir
       THEN /\ st' = "failed"
            /\ ret' = [op |-> "new", is_dir |-> is_dir, version |-> version,
                    res |-> Err("cannot create mutable datapack in non-directory")]
            /\ UNCHANGED <<inner, fs, tmpSeq>>
       ELSE IF version = VersionZero
       THEN /\ st' = "failed"
            /\ ret' = [op |-> "new", is_dir |-> is_dir, version |-> version,
                    res |-> Err("cannot create a v0 datapack")]
            /\ UNCHANGED <<inner, fs, tmpSeq>>
       ELSE /\ st' = "open"
            /\ tmpSeq' = tmpSeq + 1
            /\ inner' = Inner_new(tmpSeq + 1, version)
            /\ fs' = Put(fs, TmpName(tmpSeq + 1), DataFile(<<>>))
            /\ ret' = [op |-> "new", is_dir |-> is_dir, version |-> version,
                    res |-> OkUnit]
    /\ UNCHANGED <<log, pubLog, nAdds, nFlush>>

\* MutableDataPack::add(delta, metadata)
Add(delta, metadata) ==
    /\ UNCHANGED <<conc, others>>
    /\ st = "open"
    /\ LET r == Inner_add(inner, delta, metadata) IN
       /\ inner' = r.inner
       /\ ret' = [op |-> "add", delta |-> delta, meta |-> metadata, res |-> r.res]
       /\ log' = IF r.res.tag = "Ok" THEN Append(log, [delta |-> delta, meta |-> metadata])
                 ELSE log
    /\ nAdds' = nAdds + 1
    /\ UNCHANGED <<st, fs, tmpSeq, pubLog, nFlush>>

\* MutableDataPack::flush().  io is what the file system does: "ok", or
\* "new_fails" (the replacement staging file cannot be created), or
\* "build_fails" (writing the index or the files fails after the swap).
Flush(io) ==
    /\ UNCHANGED <<conc, others>>
    /\ st = "open"
    /\ nFlush < MaxFlush
    /\ nFlush' = nFlush + 1
    /\ IF io = "new_fails"
       THEN /\ ret' = [op |-> "flush", res |-> Err("io")]
            /\ UNCHANGED <<inner, fs, tmpSeq, log, pubLog>>
       ELSE LET new_inner == Inner_new(tmpSeq + 1, VersionOne)
                old_inner == inner
                dir1 == Put(fs, TmpName(tmpSeq + 1), DataFile(<<>>))
            IN  /\ tmpSeq' = tmpSeq + 1
                /\ inner' = Replaced(old_inner, new_inner)
                /\ log' = <<>>
                /\ IF IsEmptyPack(old_inner)
                   THEN /\ fs' = Inner_drop(old_inner, dir1)
                        /\ ret' = [op |-> "flush", res |-> OkNone]
                        /\ UNCHANGED pubLog
                   ELSE IF io = "build_fails"
                   THEN /\ fs' = Inner_drop(old_inner, dir1)
                        /\ ret' = [op |-> "flush", res |-> Err("io")]
                        /\ UNCHANGED pubLog
                   ELSE LET c == Inner_close_pack(old_inner, dir1) IN
                        /\ fs' = c.fs
                        /\ ret' = [op |-> "flush", res |-> [tag |-> "Some", path |-> c.stem]]
                        /\ pubLog' = Put(pubLog, c.stem, log)
    /\ UNCHANGED <<st, nAdds>>

\* The writer is dropped: the staging file goes with it.
Drop ==
    /\ UNCHANGED <<conc, others>>
    /\ st = "open"
    /\ st' = "dropped"
    /\ fs' = Inner_drop(inner, fs)
    /\ inner' = NoInner
    /\ ret' = [op |-> "drop"]
    /\ log' = <<>>
    /\ UNCHANGED <<tmpSeq, pubLog, nAdds, nFlush>>

GetDelta(key) ==
    /\ UNCHANGED <<conc, others>>
    /\ st = "open"
    /\ LET r == get_delta(inner, fs, key) IN
       /\ inner' = r.inner
       /\ fs' = r.fs
       /\ ret' = [op |-> "get_delta", key |-> key, res |-> r.res]
    /\ UNCHANGED <<st, tmpSeq, log, pubLog, nAdds, nFlush>>

GetMeta(key) ==
    /\ UNCHANGED <<conc, others>>
    /\ st = "open"
    /\ LET r == get_meta(inner, fs, key) IN
       /\ inner' = r.inner
       /\ fs' = r.fs
       /\ ret' = [op |-> "get_meta", key |-> key, res |-> r.res]
    /\ UNCHANGED <<st, tmpSeq, log, pubLog, nAdds, nFlush>>

\* A call that does not return keeps the lock: the writer hangs.
GetDeltaChain(key) ==
    /\ UNCHANGED <<conc, others>>
    /\ st = "open"
    /\ LET r == get_delta_chain(inner, fs, key) IN
       /\ inner' = r.inner
       /\ fs' = r.fs
       /\ ret' = [op |-> "get_delta_chain", key |-> key, res |-> r.res]
       /\ st' = IF r.res.tag = "Diverges" THEN "hung" ELSE st
    /\ UNCHANGED <<tmpSeq, log, pubLog, nAdds, nFlush>>

GetMissing(keys) ==
    /\ UNCHANGED <<conc, others>>
    /\ st = "open"
    /\ ret' = [op |-> "get_missing", keys |-> keys, res |-> get_missing(inner, keys)]
    /\ UNCHANGED <<st, inner, fs, tmpSeq, log, pubLog, nAdds, nFlush>>

---------------------------------------------------------------------------
(* The writer under arbitrary adds, lookups and publishes.  Two keys share *)
(* a content id under different paths.  A delta is a full text with        *)
(* default metadata, or has a base on path "a" and both metadata fields    *)
(* set, or has a base that carries the null id and metadata fields of 0.   *)

Keys == {Key_new("a", 1), Key_new("b", 1)}
FullMetadata == [flags |-> 2, size |-> 1000]
ZeroMetadata == [flags |-> 0, size |-> 0]
Variants ==
    {[base |-> NoKey, data |-> "d1", meta |-> DefaultMetadata],
     [base |-> Key_new("a", 2), data |-> "d2", meta |-> FullMetadata],
     [base |-> Key_new("b", NullId), data |-> "d1", meta |-> ZeroMetadata]}
Delta(key, v) == [key |-> key, base |-> v.base, data |-> v.data]
LookupKeys == Keys \cup {Key_new("a", 2)}
IoOutcomes == {"ok", "new_fails", "build_fails"}

Next ==
    \/ \E is_dir \in BOOLEAN, version \in {VersionZero, VersionOne} : New(is_dir, version)
    \/ \E k \in Keys, v \in Variants : nAdds < MaxAdds /\ Add(Delta(k, v), v.meta)
    \/ \E io \in IoOutcomes : Flush(io)
    \/ Drop
    \/ \E k \in LookupKeys : GetDelta(k)
    \/ \E k \in LookupKeys : GetMeta(k)

Spec == Init /\ [][Next]_vars

---------------------------------------------------------------------------
(* What the adds recorded in a log make a lookup owe                       *)

HasKey(lg, k) == \E i \in 1..Len(lg) : lg[i].delta.key = k
LastByKey(lg, k) ==
    lg[CHOOSE i \in 1..Len(lg) :
          /\ lg[i].delta.key = k
          /\ \A j \in (i + 1)..Len(lg) : lg[j].delta.key # k]

HasId(lg, h) == \E i \in 1..Len(lg) : lg[i].delta.key.hgid = h
LastById(lg, h) ==
    lg[CHOOSE i \in 1..Len(lg) :
          /\ lg[i].delta.key.hgid = h
          /\ \A j \in (i + 1)..Len(lg) : lg[j].delta.key.hgid # h]

BaseId(d) == IF d.base = NoKey THEN NullId ELSE d.base.hgid

\* The delta d as a lookup under path reports it: content ids and data as
\* added, the key and the base on the path of the lookup, no base for the
\* null id.
Relabel(d, path) ==
    [data |-> d.data,
     base |-> IF BaseId(d) = NullId THEN NoKey ELSE Key_new(path, BaseId(d)),
     key |-> Key_new(path, d.key.hgid)]

\* The published pack stem holds, for content id h, the record of add a.
PackHolds(stem, h, a) ==
    LET pack == DataPack_new(fs, stem)
        ie == DataIndex_get_entry(pack.index, h)
        e == DataPack_read_entry(pack, ie.entry.pack_entry_offset)
    IN  /\ pack.tag = "Ok"
        /\ ie.tag = "Ok"
        /\ e.tag = "Ok"
        /\ e.filename = a.delta.key.path
        /\ e.node = h
        /\ e.delta_base = BaseId(a.delta)
        /\ DataEntry_delta(e) = a.delta.data
        /\ e.metadata = a.meta
        /\ DataPack_get_meta(pack, a.delta.key) = [tag |-> "Ok", meta |-> a.meta]

---------------------------------------------------------------------------
(* C1 *)

\* No base and a base with the null id both mark a full text, and the
\* record has one encoding for the two: they count as the same base.
SameBase(x, y) ==
    \/ x = y
    \/ (x = NoKey \/ x.hgid = NullId) /\ (y = NoKey \/ y.hgid = NullId)

\* C1 (as stated): every added key reads back, from the writer, with the
\* key, data, base (path and content id) and metadata of the last add for
\* that key.
C1_Original ==
    /\ (ret.op = "get_delta" /\ HasKey(log, ret.key))
           => /\ ret.res.tag = "Some"
              /\ ret.res.delta.key = LastByKey(log, ret.key).delta.key
              /\ ret.res.delta.data = LastByKey(log, ret.key).delta.data
              /\ SameBase(ret.res.delta.base, LastByKey(log, ret.key).delta.base)
    /\ (ret.op = "get_meta" /\ HasKey(log, ret.key))
           => ret.res = [tag |-> "Some", meta |-> LastByKey(log, ret.key).meta]

\* C1 (amended): a lookup on the writer finds the last add for the content
\* id of the key, whatever path it was added under, and returns its data,
\* its metadata and its base content id (no base for the null id), with the
\* key and the base on the path of the lookup; the published pack holds, for
\* every added content id, the record of the last add for it: path, content
\* id, base content id, data and metadata.
C1_RoundTrip ==
    /\ (ret.op = "get_delta" /\ HasId(log, ret.key.hgid))
           => ret.res = [tag |-> "Some",
                         delta |-> Relabel(LastById(log, ret.key.hgid).delta, ret.key.path)]
    /\ (ret.op = "get_meta" /\ HasId(log, ret.key.hgid))
           => ret.res = [tag |-> "Some", meta |-> LastById(log, ret.key.hgid).meta]
    /\ \A stem \in DOMAIN pubLog :
           \A i \in 1..Len(pubLog[stem]) :
               LET h == pubLog[stem][i].delta.key.hgid
               IN  PackHolds(stem, h, LastById(pubLog[stem], h))

\* A delta with a base was read back from a writer that had published a pack.
C1_Witness ==
    /\ ret.op = "get_delta"
    /\ ret.res.tag = "Some"
    /\ ret.res.delta.base # NoKey
    /\ \E stem \in DOMAIN pubLog : Len(pubLog[stem]) >= 1

---------------------------------------------------------------------------
(* C2 *)

RECURSIVE RecordsOf(_)
RecordsOf(lg) ==
    IF lg = <<>> THEN <<>>
    ELSE EntryBytes(Head(lg).delta, Head(lg).meta) \o RecordsOf(Tail(lg))

IsPackFile(f) == f.kind \in {"datapack", "dataidx"}

\* C2: the bytes fed to the hash are, in order, the bytes of the published
\* data file (the version byte, then every record in write order), so the
\* name of the file is the digest of its content.
C2_ContentAddressing ==
    /\ \A f \in DOMAIN fs :
           f.kind = "datapack" =>
               /\ f.stem = Digest(fs[f].bytes)
               /\ f.stem \in DOMAIN pubLog
               /\ fs[f].bytes = VersionByte(VersionOne) \o RecordsOf(pubLog[f.stem])
    /\ (ret.op = "flush" /\ ret.res.tag = "Some")
           => PackName(ret.res.path, "datapack") \in DOMAIN fs

\* A publish of two records returned a path.
C2_Witness ==
    /\ ret.op = "flush"
    /\ ret.res.tag = "Some"
    /\ Len(pubLog[ret.res.path]) = 2

---------------------------------------------------------------------------
(* C3 *)

\* C3: a writer that was dropped without publish ever being called leaves
\* no file in the directory (which was empty before it was created).
C3_AbortSafety == (st = "dropped" /\ nFlush = 0) => DOMAIN fs = {}

\* A writer that took two adds was dropped unpublished.
C3_Witness == st = "dropped" /\ nFlush = 0 /\ nAdds = 2

---------------------------------------------------------------------------
(* C4 *)

\* A flush step that got its replacement staging file.
FlushStep == st = "open" /\ nFlush' = nFlush + 1 /\ tmpSeq' = tmpSeq + 1

---------------------------------------------------------------------------
(* C8 *)

\* C8: a delta added with default metadata reads back as {None, None}, one
\* added with explicit metadata reads back with those fields, and the
\* explicit {Some(0), Some(0)} does not read back as the default.
C8_MetadataDefaulting ==
    (ret.op = "get_meta" /\ HasId(log, ret.key.hgid))
        => LET m == LastById(log, ret.key.hgid).meta IN
           /\ ret.res.tag = "Some"
           /\ (m = DefaultMetadata) => ret.res.meta = [flags |-> None, size |-> None]
           /\ (m # DefaultMetadata) => (ret.res.meta = m /\ ret.res.meta # DefaultMetadata)

\* The explicit zero metadata was read back.
C8_Witness == ret.op = "get_meta" /\ ret.res = [tag |-> "Some", meta |-> ZeroMetadata]

---------------------------------------------------------------------------
(* C10 *)

\* C10: right after a successful publish the writer holds none of the keys
\* (get_delta is None and get_missing reports the key), and no later step,
\* an add among them, changes a published file.
C10_SwapOnPublish ==
    /\ []((ret.op = "flush" /\ ret.res.tag = "Some")
            => /\ IsEmptyPack(inner)
               /\ log = <<>>
               /\ \A k \in LookupKeys :
                      /\ get_delta(inner, fs, k).res = OkNone
                      /\ get_missing(inner, <<StoreKey_HgId(k)>>) = <<StoreKey_HgId(k)>>)
    /\ [][\A f \in DOMAIN fs :
              IsPackFile(f) => (f \in DOMAIN fs' /\ fs'[f] = fs[f])]_vars
    /\ [][(ret'.op = "add" /\ ret'.res = OkUnit)
              => /\ HasKey(log', ret'.delta.key)
                 /\ get_missing(inner', <<StoreKey_HgId(ret'.delta.key)>>) = <<>>
                 /\ pubLog' = pubLog]_vars

\* A key was added after a successful publish.
C10_Witness == ret.op = "add" /\ ret.res = OkUnit /\ DOMAIN pubLog # {} /\ Len(log) = 1

---------------------------------------------------------------------------
(* The writer under adds whose paths are around the longest one a record   *)
(* can hold.                                                               *)

PathCases == {"", "a", "L-1", "L", "L+1"}
PathDeltas == [key : [path : PathCases, hgid : {1, 2}], base : {NoKey}, data : {"d1"}]

NextPath ==
    \/ \E is_dir \in BOOLEAN, version \in {VersionZero, VersionOne} : New(is_dir, version)
    \/ \E d \in PathDeltas : nAdds < MaxAdds /\ Add(d, DefaultMetadata)
    \/ \E k \in {Key_new("L-1", 1), Key_new("L", 2)} : GetDelta(k)
    \/ Flush("ok")

SpecPath == Init /\ [][NextPath]_vars

---------------------------------------------------------------------------
(* C9 *)

\* C9 (as stated): add succeeds for every path of at most 65535 bytes, the
\* longest a 16-bit length holds, and fails for a path one byte longer.
C9_Original ==
    ret.op = "add" => (ret.res = OkUnit <=> PathLen(ret.delta.key.path) <= U16Max)

---------------------------------------------------------------------------
(* The writer under adds, publishes and get_missing over sequences of      *)
(* store keys: HgId keys, one of them never added, and a content key.      *)

MissingAdds == {Key_new("a", 1), Key_new("a", 2)}
StoreKeys ==
    {StoreKey_HgId(k) : k \in MissingAdds \cup {Key_new("b", 1)}}
        \cup {StoreKey_Content(Key_new("a", 1))}

RECURSIVE SeqsUpTo(_, _)
SeqsUpTo(S, n) ==
    IF n = 0 THEN {<<>>}
    ELSE LET shorter == SeqsUpTo(S, n - 1)
         IN  shorter \cup {Append(q, x) : q \in shorter, x \in S}

NextMissing ==
    \/ \E is_dir \in BOOLEAN, version \in {VersionZero, VersionOne} : New(is_dir, version)
    \/ \E k \in MissingAdds :
           nAdds < MaxAdds /\ Add([key |-> k, base |-> NoKey, data |-> "d1"], DefaultMetadata)
    \/ Flush("ok")
    \/ \E keys \in SeqsUpTo(StoreKeys, MaxKeys) : GetMissing(keys)

SpecMissing == Init /\ [][NextMissing]_vars

---------------------------------------------------------------------------
(* C7 *)

\* The store key was never added to the pack of log lg: no add had its
\* content id.  A content key is in no index.
NeverAdded(lg, k) == k.kind = "Content" \/ ~HasId(lg, k.key.hgid)

\* C7: get_missing returns the keys of its input that are absent from the
\* index of the pack, in the order of the input and as often as they occur
\* in it, and changes no state; so does the reader of a published pack.
C7_MissingFilter ==
    /\ [](ret.op = "get_missing"
            => /\ ret.res = SelectSeq(ret.keys, LAMBDA k : NeverAdded(log, k))
               /\ \A i \in 1..Len(ret.res) : NeverAdded(log, ret.res[i])
               /\ \A stem \in DOMAIN pubLog :
                      LET hg == SelectSeq(ret.keys, LAMBDA k : k.kind = "HgId")
                          keys == [i \in 1..Len(hg) |-> hg[i].key]
                      IN  DataPack_get_missing(DataPack_new(fs, stem), keys)
                              = SelectSeq(keys, LAMBDA k : ~HasId(pubLog[stem], k.hgid)))
    /\ [][ret'.op = "get_missing"
             => UNCHANGED <<st, inner, fs, tmpSeq, log, pubLog, nAdds, nFlush>>]_vars

\* get_missing was given a present key and an absent one, and a pack was
\* published before.
C7_Witness ==
    /\ ret.op = "get_missing"
    /\ Len(ret.keys) = 2
    /\ ret.keys[1].kind = "HgId" /\ HasId(log, ret.keys[1].key.hgid)
    /\ ret.res = <<ret.keys[2]>>
    /\ DOMAIN pubLog # {}

---------------------------------------------------------------------------
(* The writer under adds that build delta chains, and get_delta_chain.     *)
(* The delta of content id 1 is a full text, or has itself or content id 2 *)
(* as its base, which closes a cycle; a delta on path "a" of a higher      *)
(* content id has the content id below its own as its base, on its own     *)
(* path or on the other; the delta on path "b" is a full text.  A base can *)
(* be added before the delta, after it, or never.                          *)

ChainKeys == {Key_new("a", 1), Key_new("a", 2), Key_new("a", 3), Key_new("b", 2)}
ChainBases == {Key_new(p, h) : p \in {"a", "b"}, h \in {1, 2}}
ChainDeltas ==
    {d \in [key : ChainKeys, base : ChainBases \cup {NoKey}, data : {"d1"}] :
        \/ d.key.hgid = 1 /\ (d.base = NoKey \/ d.base.path = "a")
        \/ d.key.path = "a" /\ d.key.hgid > 1 /\ d.base # NoKey /\ d.base.hgid = d.key.hgid - 1
        \/ d.key.path = "b" /\ d.base = NoKey}
ChainLookups == ChainKeys \cup {Key_new("b", 3)}

NextChain ==
    \/ \E is_dir \in BOOLEAN, version \in {VersionZero, VersionOne} : New(is_dir, version)
    \/ \E d \in ChainDeltas : nAdds < MaxChainAdds /\ Add(d, DefaultMetadata)
    \/ \E k \in ChainLookups : GetDeltaChain(k)

SpecChain == Init /\ [][NextChain]_vars

---------------------------------------------------------------------------
(* The chains the adds of a log describe                                   *)

\* The chain of keys from k, each the base of the one before as it was last
\* added: "full" when it ends in a full text, "absent" when it reaches a key
\* that was never added, "cycle" when it comes back to a key.
RECURSIVE KeyChain(_, _, _)
KeyChain(lg, k, seen) ==
    IF ~HasKey(lg, k) THEN [adds |-> <<>>, end |-> "absent"]
    ELSE IF k \in seen THEN [adds |-> <<>>, end |-> "cycle"]
    ELSE LET a == LastByKey(lg, k) IN
         IF a.delta.base = NoKey THEN [adds |-> <<a>>, end |-> "full"]
         ELSE LET rest == KeyChain(lg, a.delta.base, seen \cup {k})
              IN  [adds |-> <<a>> \o rest.adds, end |-> rest.end]

\* The same by content id alone: the last add for a content id, then the
\* last add for its base content id.
RECURSIVE IdChain(_, _, _)
IdChain(lg, h, seen) ==
    IF ~HasId(lg, h) THEN [adds |-> <<>>, end |-> "absent"]
    ELSE IF h \in seen THEN [adds |-> <<>>, end |-> "cycle"]
    ELSE LET a == LastById(lg, h) IN
         IF BaseId(a.delta) = NullId THEN [adds |-> <<a>>, end |-> "full"]
         ELSE LET rest == IdChain(lg, BaseId(a.delta), seen \cup {h})
              IN  [adds |-> <<a>> \o rest.adds, end |-> rest.end]

DeltasOf(adds) == [i \in 1..Len(adds) |-> adds[i].delta]
RelabelledOf(adds, path) == [i \in 1..Len(adds) |-> Relabel(adds[i].delta, path)]

\* Every delta of the adds has its key, and its base if any, on path.
OnPath(adds, path) ==
    \A i \in 1..Len(adds) :
        /\ adds[i].delta.key.path = path
        /\ adds[i].delta.base # NoKey => adds[i].delta.base.path = path

---------------------------------------------------------------------------
(* C5 *)

\* C5 (as stated): when the keys K_n -> ... -> K_1 of an acyclic chain that
\* ends in a full text have all been added, get_delta_chain(K_n) returns the
\* added deltas, K_n first and the full text last.
C5_Original ==
    (ret.op = "get_delta_chain" /\ KeyChain(log, ret.key, {}).end = "full")
        => ret.res = [tag |-> "Some", chain |-> DeltasOf(KeyChain(log, ret.key, {}).adds)]

\* C5 (amended): the chain is followed by content id: when the last adds
\* for the content id of K_n, for its base content id and so on end in a
\* full text without a repeat, get_delta_chain(K_n) returns those deltas,
\* K_n first and the full text last, each with its data and content ids as
\* added and with its key and base on the path of K_n; they are the added
\* deltas themselves when all of them were added on the path of K_n.
C5_ChainReconstruction ==
    (ret.op = "get_delta_chain" /\ IdChain(log, ret.key.hgid, {}).end = "full")
        => LET adds == IdChain(log, ret.key.hgid, {}).adds IN
           /\ ret.res = [tag |-> "Some", chain |-> RelabelledOf(adds, ret.key.path)]
           /\ ret.res.chain[1].key = ret.key
           /\ ret.res.chain[Len(ret.res.chain)].base = NoKey
           /\ OnPath(adds, ret.key.path) => ret.res.chain = DeltasOf(adds)

\* The chain of three deltas added on one path was returned whole.
C5_Witness ==
    /\ ret.op = "get_delta_chain"
    /\ ret.res.tag = "Some"
    /\ Len(ret.res.chain) = 3
    /\ ret.res.chain = DeltasOf(KeyChain(log, ret.key, {}).adds)

---------------------------------------------------------------------------
(* C6 *)

---------------------------------------------------------------------------
(* Threads sharing one writer.  Every public call takes the mutex around   *)
(* inner; a call is a sequence of steps of its thread, and the steps of    *)
(* different threads interleave.                                           *)

MaxConcAdds == 2
MaxConcFlush == 1

\* A mutex that lets a thread in while another holds it.
CanLock_Always(l) == TRUE

\* self.inner.lock() returns when no thread holds the mutex.
CanLock(l) == l = 0

\* The bytes of the staging file of an inner: those on disk, then those the
\* PackWriter still buffers.
Staged(in, dir) == dir[TmpName(in.tmp)].bytes \o in.pending

\* A thread makes a call: it has not asked for the mutex yet.
T_Call(t, call) ==
    /\ UNCHANGED others
    /\ st = "open"
    /\ pc[t] = "idle"
    /\ pc' = [pc EXCEPT ![t] = "wait"]
    /\ loc' = [loc EXCEPT ![t] = call]
    /\ nAdds' = IF call.op = "add" THEN nAdds + 1 ELSE nAdds
    /\ nFlush' = IF call.op = "flush" THEN nFlush + 1 ELSE nFlush
    /\ UNCHANGED <<st, inner, fs, tmpSeq, ret, log, pubLog, lock>>

\* self.inner.lock(): the thread takes the mutex.
T_Lock(t) ==
    /\ UNCHANGED others
    /\ pc[t] = "wait"
    /\ CanLock(lock)
    /\ lock' = t
    /\ pc' = [pc EXCEPT ![t] = loc[t].op]
    /\ UNCHANGED <<st, inner, fs, tmpSeq, ret, log, pubLog, nAdds, nFlush, loc>>

\* add, up to the serialization of the record: the path test, the offset
\* the record will have and its bytes.  A path too long returns the error
\* and gives the mutex back.
T_AddPrepare(t) ==
    /\ UNCHANGED others
    /\ pc[t] = "add"
    /\ IF PathTooLong(PathLen(loc[t].delta.key.path))
       THEN /\ ret' = [op |-> "add", delta |-> loc[t].delta, meta |-> loc[t].meta,
                       res |-> Err("delta path is longer than 2^16")]
            /\ lock' = 0
            /\ pc' = [pc EXCEPT ![t] = "idle"]
            /\ loc' = [loc EXCEPT ![t] = NoLocals]
       ELSE /\ loc' = [loc EXCEPT ![t] =
                          [op |-> "add", delta |-> loc[t].delta, meta |-> loc[t].meta,
                           offset |-> inner.bytes_written,
                           buf |-> EntryBytes(loc[t].delta, loc[t].meta)]]
            /\ pc' = [pc EXCEPT ![t] = "add_write"]
            /\ UNCHANGED <<ret, lock>>
    /\ UNCHANGED <<st, inner, fs, tmpSeq, log, pubLog, nAdds, nFlush>>

\* self.data_file.write_all(&buf)
T_AddWrite(t) ==
    /\ UNCHANGED others
    /\ pc[t] = "add_write"
    /\ inner' = [inner EXCEPT !.pending = @ \o loc[t].buf,
                              !.bytes_written = @ + ByteLen(loc[t].buf)]
    /\ pc' = [pc EXCEPT ![t] = "add_hash"]
    /\ UNCHANGED <<st, fs, tmpSeq, ret, log, pubLog, nAdds, nFlush, lock, loc>>

\* self.hasher.input(&buf)
T_AddHash(t) ==
    /\ UNCHANGED others
    /\ pc[t] = "add_hash"
    /\ inner' = [inner EXCEPT !.hasher = @ \o HashedBytes(loc[t].buf)]
    /\ pc' = [pc EXCEPT ![t] = "add_index"]
    /\ UNCHANGED <<st, fs, tmpSeq, ret, log, pubLog, nAdds, nFlush, lock, loc>>

\* self.mem_index.insert(..); Ok(()): add returns and the guard is dropped.
T_AddIndex(t) ==
    /\ UNCHANGED others
    /\ pc[t] = "add_index"
    /\ inner' = [inner EXCEPT !.mem_index =
                    Put(@, loc[t].delta.key.hgid,
                        Location(loc[t].delta, loc[t].offset, loc[t].buf))]
    /\ log' = Append(log, [delta |-> loc[t].delta, meta |-> loc[t].meta])
    /\ ret' = [op |-> "add", delta |-> loc[t].delta, meta |-> loc[t].meta, res |-> OkUnit]
    /\ lock' = 0
    /\ pc' = [pc EXCEPT ![t] = "idle"]
    /\ loc' = [loc EXCEPT ![t] = NoLocals]
    /\ UNCHANGED <<st, fs, tmpSeq, pubLog, nAdds, nFlush>>

\* get_delta, get_meta, get_delta_chain: the lookup runs and returns, and
\* the guard is dropped; a chain walk that does not end keeps the mutex.
T_Read(t) ==
    /\ UNCHANGED others
    /\ pc[t] \in {"get_delta", "get_meta", "get_delta_chain"}
    /\ LET key == loc[t].key
           r == CASE pc[t] = "get_delta" -> get_delta(inner, fs, key)
                  [] pc[t] = "get_meta" -> get_meta(inner, fs, key)
                  [] OTHER -> get_delta_chain(inner, fs, key)
       IN  /\ inner' = r.inner
           /\ fs' = r.fs
           /\ ret' = [op |-> pc[t], key |-> key, res |-> r.res]
           /\ IF r.res.tag = "Diverges"
              THEN /\ pc' = [pc EXCEPT ![t] = "hung"]
                   /\ UNCHANGED <<lock, loc>>
              ELSE /\ pc' = [pc EXCEPT ![t] = "idle"]
                   /\ loc' = [loc EXCEPT ![t] = NoLocals]
                   /\ lock' = 0
    /\ UNCHANGED <<st, tmpSeq, log, pubLog, nAdds, nFlush>>

\* get_missing: the filter runs under the guard.
T_GetMissing(t) ==
    /\ UNCHANGED others
    /\ pc[t] = "get_missing"
    /\ ret' = [op |-> "get_missing", keys |-> loc[t].keys,
               res |-> get_missing(inner, loc[t].keys)]
    /\ lock' = 0
    /\ pc' = [pc EXCEPT ![t] = "idle"]
    /\ loc' = [loc EXCEPT ![t] = NoLocals]
    /\ UNCHANGED <<st, inner, fs, tmpSeq, log, pubLog, nAdds, nFlush>>

\* flush, after the lock: the replacement inner is made and swapped in; the
\* old inner is a local of the call.  A failure to make the replacement
\* returns the error.
T_FlushSwap(t, io) ==
    /\ UNCHANGED others
    /\ pc[t] = "flush"
    /\ IF io = "new_fails"
       THEN /\ ret' = [op |-> "flush", res |-> Err("io")]
            /\ lock' = 0
            /\ pc' = [pc EXCEPT ![t] = "idle"]
            /\ loc' = [loc EXCEPT ![t] = NoLocals]
            /\ UNCHANGED <<inner, fs, tmpSeq, log>>
       ELSE /\ tmpSeq' = tmpSeq + 1
            /\ fs' = Put(fs, TmpName(tmpSeq + 1), DataFile(<<>>))
            /\ inner' = Replaced(inner, Inner_new(tmpSeq + 1, VersionOne))
            /\ loc' = [loc EXCEPT ![t] = [op |-> "flush", old_inner |-> inner, old_log |-> log]]
            /\ log' = <<>>
            /\ pc' = [pc EXCEPT ![t] = "flush_close"]
            /\ UNCHANGED <<ret, lock>>
    /\ UNCHANGED <<st, pubLog, nAdds, nFlush>>

\* old_inner.close_pack(), then flush returns and its guard, a local of
\* flush, is dropped.
T_FlushClose(t, io) ==
    /\ UNCHANGED others
    /\ pc[t] = "flush_close"
    /\ LET old_inner == loc[t].old_inner IN
       IF IsEmptyPack(old_inner)
       THEN /\ fs' = Inner_drop(old_inner, fs)
            /\ ret' = [op |-> "flush", res |-> OkNone]
            /\ UNCHANGED pubLog
       ELSE IF io = "build_fails"
       THEN /\ fs' = Inner_drop(old_inner, fs)
            /\ ret' = [op |-> "flush", res |-> Err("io")]
            /\ UNCHANGED pubLog
       ELSE LET c == Inner_close_pack(old_inner, fs) IN
            /\ fs' = c.fs
            /\ ret' = [op |-> "flush", res |-> [tag |-> "Some", path |-> c.stem]]
            /\ pubLog' = Put(pubLog, c.stem, loc[t].old_log)
    /\ lock' = 0
    /\ pc' = [pc EXCEPT ![t] = "idle"]
    /\ loc' = [loc EXCEPT ![t] = NoLocals]
    /\ UNCHANGED <<st, inner, tmpSeq, log, nAdds, nFlush>>

\* The calls the threads make.
ConcAdds ==
    {[op |-> "add", delta |-> [key |-> Key_new("a", 1), base |-> NoKey, data |-> "d1"],
      meta |-> DefaultMetadata],
     [op |-> "add", delta |-> [key |-> Key_new("a", 2), base |-> Key_new("a", 1), data |-> "d2"],
      meta |-> FullMetadata]}
ConcReads ==
    {[op |-> "get_delta", key |-> Key_new("a", 1)],
     [op |-> "get_meta", key |-> Key_new("a", 2)],
     [op |-> "get_delta_chain", key |-> Key_new("a", 2)],
     [op |-> "get_missing",
      keys |-> <<StoreKey_HgId(Key_new("a", 1)), StoreKey_HgId(Key_new("a", 2))>>]}

NextConc ==
    \/ New(TRUE, VersionOne)
    \/ \E t \in Threads, c \in ConcAdds : nAdds < MaxConcAdds /\ T_Call(t, c)
    \/ \E t \in Threads, c \in ConcReads : T_Call(t, c)
    \/ \E t \in Threads : nFlush < MaxConcFlush /\ T_Call(t, [op |-> "flush"])
    \/ \E t \in Threads : T_Lock(t)
    \/ \E t \in Threads : T_AddPrepare(t)
    \/ \E t \in Threads : T_AddWrite(t)
    \/ \E t \in Threads : T_AddHash(t)
    \/ \E t \in Threads : T_AddIndex(t)
    \/ \E t \in Threads : T_Read(t)
    \/ \E t \in Threads : T_GetMissing(t)
    \/ \E t \in Threads, io \in {"ok", "new_fails"} : T_FlushSwap(t, io)
    \/ \E t \in Threads, io \in {"ok", "build_fails"} : T_FlushClose(t, io)

SpecConc == Init /\ [][NextConc]_vars

---------------------------------------------------------------------------
(* C11 *)

\* C11 (as stated): while a publish is building and renaming the files of
\* the old state no lock is held, so an add another thread has issued can
\* take the lock.
C11_Original ==
    \A t \in Threads, u \in Threads :
        (pc[t] = "flush_close" /\ pc[u] = "wait" /\ loc[u].op = "add") => CanLock(lock)

---------------------------------------------------------------------------
(* C12 *)

\* The record of the add that is between the given steps, if there is one.
AddBuf(steps) ==
    IF \E t \in Threads : pc[t] \in steps
    THEN loc[CHOOSE t \in Threads : pc[t] \in steps].buf
    ELSE <<>>

\* What a lookup owes after the adds of log lg.
Expected(lg, call) ==
    CASE call.op = "get_delta" ->
           IF HasId(lg, call.key.hgid)
           THEN [tag |-> "Some",
                 delta |-> Relabel(LastById(lg, call.key.hgid).delta, call.key.path)]
           ELSE OkNone
      [] call.op = "get_meta" ->
           IF HasId(lg, call.key.hgid)
           THEN [tag |-> "Some", meta |-> LastById(lg, call.key.hgid).meta]
           ELSE OkNone
      [] call.op = "get_delta_chain" ->
           IF HasId(lg, call.key.hgid)
           THEN [tag |-> "Some",
                 chain |-> RelabelledOf(IdChain(lg, call.key.hgid, {}).adds, call.key.path)]
           ELSE OkNone
      [] OTHER -> SelectSeq(call.keys, LAMBDA k : NeverAdded(lg, k))

\* C12: under every interleaving of the calls of the threads, a thread is
\* inside a call only while it holds the lock; the staging file is the
\* version byte and the whole records of the completed adds in order (then
\* that of the add in progress once written), the hash was fed the same
\* records in the same order, every index entry reads back as the record of
\* a completed add, and every lookup returns what the completed adds owe.
C12_Atomic ==
    /\ [](st = "open" =>
            /\ \A t \in Threads : pc[t] \notin {"idle", "wait"} => lock = t
            /\ Staged(inner, fs) = VersionByte(VersionOne) \o RecordsOf(log)
                                      \o AddBuf({"add_hash", "add_index"})
            /\ inner.hasher = VersionByte(VersionOne) \o RecordsOf(log)
                                 \o AddBuf({"add_index"})
            /\ \A h \in DOMAIN inner.mem_index :
                   /\ HasId(log, h)
                   /\ Inner_read_entry(inner, fs, Key_new("a", h)).res
                        = [tag |-> "Some",
                           delta |-> Relabel(LastById(log, h).delta, "a"),
                           meta |-> LastById(log, h).meta])
    /\ [][\A t \in Threads :
              (pc[t] \in {"get_delta", "get_meta", "get_delta_chain", "get_missing"}
                  /\ pc'[t] = "idle")
                  => ret'.res = Expected(log, loc[t])]_vars

\* A lookup waits for the lock while an add that has written its record has
\* not yet fed it to the hash, after an earlier add completed.
C12_Witness ==
    \E t \in Threads, u \in Threads :
        /\ pc[t] = "add_hash"
        /\ pc[u] = "wait"
        /\ loc[u].op = "get_delta"
        /\ Len(log) = 1

---------------------------------------------------------------------------
(* C13 *)

\* The position in log lg of the last add for content id h.
LastIdx(lg, h) ==
    CHOOSE i \in 1..Len(lg) :
        /\ lg[i].delta.key.hgid = h
        /\ \A j \in (i + 1)..Len(lg) : lg[j].delta.key.hgid # h

\* C13: adding a key again is no error; the index keeps one entry for it,
\* at the offset and with the size of the record of the last add, and
\* lookups return the data, base id and metadata of that add, while the
\* records of all the adds stay, in order, in the staging file and in the
\* hashed stream.
C13_LastWriteWins ==
    /\ ret.op = "add" => ret.res = OkUnit
    /\ st = "open" =>
         /\ Staged(inner, fs) = VersionByte(VersionOne) \o RecordsOf(log)
         /\ inner.hasher = VersionByte(VersionOne) \o RecordsOf(log)
         /\ DOMAIN inner.mem_index = {log[i].delta.key.hgid : i \in 1..Len(log)}
         /\ \A h \in DOMAIN inner.mem_index :
                LET i == LastIdx(log, h) IN
                /\ inner.mem_index[h].offset
                     = 1 + ByteLen(RecordsOf(SubSeq(log, 1, i - 1)))
                /\ inner.mem_index[h].size
                     = ByteLen(EntryBytes(log[i].delta, log[i].meta))
    /\ (ret.op \in {"get_delta", "get_meta"} /\ HasKey(log, ret.key)
          /\ LastByKey(log, ret.key) = LastById(log, ret.key.hgid))
         => LET a == LastByKey(log, ret.key) IN
            /\ ret.res.tag = "Some"
            /\ ret.op = "get_delta" =>
                 /\ ret.res.delta.key = ret.key
                 /\ ret.res.delta.data = a.delta.data
                 /\ BaseId(ret.res.delta) = BaseId(a.delta)
            /\ ret.op = "get_meta" => ret.res.meta = a.meta

\* The same key was added twice with different data, and a lookup returned
\* the second.
C13_Witness ==
    /\ ret.op = "get_delta"
    /\ Len(log) = 2
    /\ log[1].delta.key = ret.key
    /\ log[2].delta.key = ret.key
    /\ log[1].delta.data # log[2].delta.data
    /\ ret.res.tag = "Some"
    /\ ret.res.delta.data = log[2].delta.data

---------------------------------------------------------------------------
(* C14 *)

\* C14: new fails when the destination is not a directory or version 0 is
\* asked for, and a failed new creates no file; when it succeeds the
\* directory holds the one staging file, whose content is the version byte
\* alone, the hash has consumed that byte alone and the index is empty.
C14_Construction ==
    ret.op = "new" =>
        /\ (~ret.is_dir \/ ret.version = VersionZero) => ret.res.tag = "Err"
        /\ ret.res.tag = "Err" => (st = "failed" /\ DOMAIN fs = {})
        /\ ret.res.tag # "Err" =>
             /\ ret.res = OkUnit
             /\ st = "open"
             /\ DOMAIN fs = {TmpName(inner.tmp)}
             /\ Staged(inner, fs) = VersionByte(ret.version)
             /\ ByteLen(Staged(inner, fs)) = 1
             /\ inner.bytes_written = 1
             /\ inner.hasher = VersionByte(ret.version)
             /\ IsEmptyPack(inner)

\* A writer was constructed in a directory with version 1.
C14_Witness == ret.op = "new" /\ ret.res = OkUnit /\ ret.is_dir /\ ret.version = VersionOne

---------------------------------------------------------------------------
(* The writer and the readers of the packs it published: raw get and the   *)
(* lookups of keys that are and are not in the pack.                       *)

\* MutableDataPack::get(key)
Get(key) ==
    /\ UNCHANGED <<conc, others>>
    /\ st = "open"
    /\ LET r == get(inner, fs, key) IN
       /\ inner' = r.inner
       /\ fs' = r.fs
       /\ ret' = [op |-> "get", key |-> key, res |-> r.res]
    /\ UNCHANGED <<st, tmpSeq, log, pubLog, nAdds, nFlush>>

\* DataPack::new(path) on a published pack, then DataPack::get(key)
PackGet(stem, key) ==
    /\ UNCHANGED <<conc, others>>
    /\ PackName(stem, "datapack") \in DOMAIN fs
    /\ ret' = [op |-> "pack_get", stem |-> stem, key |-> key,
               res |-> DataPack_get(DataPack_new(fs, stem), key)]
    /\ UNCHANGED <<st, inner, fs, tmpSeq, log, pubLog, nAdds, nFlush>>

\* DataPack::new(path) on a published pack, then DataPack::get_meta(key)
PackGetMeta(stem, key) ==
    /\ UNCHANGED <<conc, others>>
    /\ PackName(stem, "datapack") \in DOMAIN fs
    /\ ret' = [op |-> "pack_get_meta", stem |-> stem, key |-> key,
               res |-> DataPack_get_meta(DataPack_new(fs, stem), key)]
    /\ UNCHANGED <<st, inner, fs, tmpSeq, log, pubLog, nAdds, nFlush>>

ReaderKeys == {Key_new("a", 1), Key_new("a", 2)}

NextReader ==
    \/ New(TRUE, VersionOne)
    \/ \E k \in ReaderKeys :
           nAdds < MaxAdds /\ Add([key |-> k, base |-> NoKey, data |-> "d1"], FullMetadata)
    \/ Flush("ok")
    \/ \E k \in ReaderKeys : GetDelta(k)
    \/ \E k \in ReaderKeys : GetMeta(k)
    \/ \E k \in ReaderKeys : Get(k)
    \/ \E stem \in DOMAIN pubLog, k \in ReaderKeys : PackGet(stem, k)
    \/ \E stem \in DOMAIN pubLog, k \in ReaderKeys : PackGetMeta(stem, k)

SpecReader == Init /\ [][NextReader]_vars

---------------------------------------------------------------------------
(* C15 *)

\* C15 (as stated): raw get fails with the unsupported-operation error for
\* every key, on the writer and on the reader of a published pack; it does
\* not panic and returns no content.
C15_Original ==
    ret.op \in {"get", "pack_get"} => (ret.res.tag = "Err" /\ ret.res = Unsupported)

---------------------------------------------------------------------------
(* C16 *)

\* C16 (as stated): get_delta and get_meta of a key that is not in the pack
\* return None and no error, on the writer and on the reader of a published
\* pack.
C16_Original ==
    /\ (ret.op \in {"get_delta", "get_meta"} /\ ~HasId(log, ret.key.hgid))
          => ret.res = OkNone
    /\ (ret.op = "pack_get_meta" /\ ~HasId(pubLog[ret.stem], ret.key.hgid))
          => ret.res = OkNone

----------------------------------------------------------------------------
(* C17 *)

\* C17: an add rejected for its path is never partially applied: the step
\* leaves the staging file, the byte count, the hash and the index as they
\* were, and the writer goes on holding exactly the records of the accepted
\* adds, as if the rejected add had never been made.
C17_RejectedAddFrame ==
    /\ [][(nAdds' = nAdds + 1 /\ ret'.res.tag = "Err") =>
             /\ inner' = inner
             /\ fs' = fs
             /\ st' = st
             /\ Staged(inner', fs') = Staged(inner, fs)]_vars
    /\ [](st = "open" =>
             /\ Staged(inner, fs) = VersionByte(VersionOne) \o RecordsOf(log)
             /\ inner.bytes_written = ByteLen(Staged(inner, fs))
             /\ inner.hasher = VersionByte(VersionOne) \o RecordsOf(log)
             /\ DOMAIN inner.mem_index = {log[i].delta.key.hgid : i \in DOMAIN log})

C17_Witness ==
    /\ ret.op = "add"
    /\ ret.res.tag = "Err"
    /\ Len(log) >= 1
    /\ inner.bytes_written > 1

----------------------------------------------------------------------------
(* A SelectAll under pushes and polls                                      *)

MaxPush == 3

\* The streams pushed: an empty one, ones that produce items and end, and
\* ones that fail.
StreamCases ==
    {<<>>, <<Item("x")>>, <<Item("x"), Item("y")>>, <<Error("e")>>,
     <<Item("x"), Error("e")>>}

\* set.push(stream) with a stream that has not been polled.
Push(items) ==
    /\ Len(sel.pushed) < MaxPush
    /\ LET stream == Stream(Len(sel.pushed) + 1, items) IN
       sel' = [set |-> push(sel.set, stream), op |-> "push", res |-> OkUnit,
               before |-> len(sel.set), pushed |-> Append(sel.pushed, items)]
    /\ UNCHANGED <<packVars, rmap, batch, parsed, repo>>

\* select_all(streams) in place of SelectAll::new().
SelectAllOf(streams) ==
    /\ sel.op = "new"
    /\ sel' = [set |-> select_all([i \in DOMAIN streams |-> Stream(i, streams[i])]),
               op |-> "select_all", res |-> OkUnit,
               before |-> 0, pushed |-> streams]
    /\ UNCHANGED <<packVars, rmap, batch, parsed, repo>>

\* set.poll().  Which futures were notified and which of them is ready is
\* up to the streams.
Poll(woken, pick) ==
    /\ LET ids == {f.stream.id : f \in sel.set.inner} IN
       /\ woken \subseteq ids
       /\ pick \in (ids \ woken) \cup {NoPick}
       /\ is_empty(sel.set) => pick = NoPick
    /\ LET r == poll(sel.set, woken, pick) IN
       sel' = [sel EXCEPT !.set = r.set, !.op = "poll", !.res = r.res,
                          !.before = len(sel.set)]
    /\ UNCHANGED <<packVars, rmap, batch, parsed, repo>>

NextSelect ==
    \/ \E items \in StreamCases : Push(items)
    \/ \E streams \in {<<a, b>> : a, b \in StreamCases} : SelectAllOf(streams)
    \/ \E woken \in SUBSET (1..MaxPush), pick \in 0..MaxPush : Poll(woken, pick)

SpecSelect == Init /\ [][NextSelect]_vars

----------------------------------------------------------------------------
(* C18 *)

\* The streams pushed so far produce no errors.
NoErrors(pushed) ==
    \A i \in DOMAIN pushed : \A j \in DOMAIN pushed[i] : pushed[i][j].tag = "Item"

\* C18 (as stated): over streams that produce no errors, poll reports the
\* end of the combined stream only once every contained stream has ended;
\* one stream ending while others still have items does not end it.
C18_Original ==
    (sel.op = "poll" /\ sel.res = ReadyNone /\ NoErrors(sel.pushed)) =>
        \A f \in sel.set.inner : f.stream.items = <<>>

----------------------------------------------------------------------------
(* C19 *)

\* C19: a SelectAll that contains no streams, fresh or after its streams
\* were removed, has len 0, is empty, and answers poll with Ready(None);
\* push adds exactly one in-flight stream and does not poll it.
C19_EmptyAndPush ==
    /\ sel.set.inner = {} => (len(sel.set) = 0 /\ is_empty(sel.set))
    /\ sel.set.inner # {} => (len(sel.set) > 0 /\ ~is_empty(sel.set))
    /\ sel.op = "new" => sel.set.inner = {}
    /\ (sel.op = "poll" /\ sel.before = 0) =>
           (sel.res = ReadyNone /\ sel.set.inner = {})
    /\ sel.op = "push" =>
           LET n == Len(sel.pushed) IN
           /\ len(sel.set) = sel.before + 1
           /\ \E f \in sel.set.inner :
                  /\ f.stream = [id |-> n, items |-> sel.pushed[n], polled |-> FALSE]
                  /\ \A g \in sel.set.inner \ {f} : g.stream.id < n

C19_Witness ==
    /\ sel.op = "poll"
    /\ sel.before = 0
    /\ sel.res = ReadyNone
    /\ Len(sel.pushed) >= 2

----------------------------------------------------------------------------
(* A RegenerateMapping under regenerate, get and put.  get and put are     *)
(* async: each works on the regenerate set first and then awaits the base, *)
(* and other calls run in between.  rmap.owed is ghost: the ids named by a *)
(* regenerate call for which put has not been called since.  rmap.stale is *)
(* ghost: the ids whose value in the base was stored before a regenerate   *)
(* call that named them.                                                   *)

MaxCalls == 5

Csids == {1, 2}
Values == {"v1", "v2"}

\* mapping.regenerate(csids)
Regenerate(csids) ==
    /\ rmap.nCalls < MaxCalls
    /\ rmap' = [rmap EXCEPT !.map = regenerate(@, csids),
                            !.op = "regenerate",
                            !.res = OkUnit,
                            !.owed = @ \cup csids,
                            !.stale = @ \cup (csids \cap DOMAIN rmap.map.base),
                            !.nCalls = @ + 1]
    /\ UNCHANGED <<packVars, sel, batch, parsed, repo>>

\* mapping.get(ctx, csids), up to the await of base.get.
RegenerateMapping_get(csids) ==
    /\ rmap.nCalls < MaxCalls
    /\ rmap.getting = NoCall
    /\ rmap' = [rmap EXCEPT !.getting = [op |-> "get", asked |-> csids,
                                        csids |-> Retain(rmap.map, csids),
                                        hidden |-> rmap.owed,
                                        stale |-> rmap.stale],
                            !.nCalls = @ + 1]
    /\ UNCHANGED <<packVars, sel, batch, parsed, repo>>

\* base.get(ctx, csids).await: the base answers, or fails.
RegenerateMapping_get_await(io) ==
    /\ rmap.getting # NoCall
    /\ rmap' = [rmap EXCEPT !.getting = NoCall,
                            !.op = "get",
                            !.last = [rmap.getting EXCEPT !.op = "got"],
                            !.res = IF io = "ok"
                                    THEN [tag |-> "Ok",
                                          v |-> Base_get(rmap.map.base, rmap.getting.csids)]
                                    ELSE Err("base")]
    /\ UNCHANGED <<packVars, sel, batch, parsed, repo>>

\* mapping.put(ctx, csid, id), up to the await of base.put.
RegenerateMapping_put(csid, id) ==
    /\ rmap.nCalls < MaxCalls
    /\ rmap.putting = NoCall
    /\ rmap' = [rmap EXCEPT !.map = Forget(@, csid),
                            !.putting = [op |-> "put", csid |-> csid, id |-> id,
                                         marked |-> csid \in rmap.map.regenerate],
                            !.owed = @ \ {csid},
                            !.nCalls = @ + 1]
    /\ UNCHANGED <<packVars, sel, batch, parsed, repo>>

\* base.put(ctx, csid, id).await: the base stores the value, or fails.
RegenerateMapping_put_await(io) ==
    /\ rmap.putting # NoCall
    /\ rmap' = [rmap EXCEPT !.putting = NoCall,
                            !.op = "put",
                            !.last = [rmap.putting EXCEPT !.op = "stored"],
                            !.map.base = IF io = "ok"
                                         THEN Base_put(@, rmap.putting.csid, rmap.putting.id)
                                         ELSE @,
                            !.stale = IF io = "ok" THEN @ \ {rmap.putting.csid} ELSE @,
                            !.getting = IF io = "ok" /\ rmap.getting # NoCall
                                        THEN [@ EXCEPT !.stale = @ \ {rmap.putting.csid}]
                                        ELSE @,
                            !.res = IF io = "ok" THEN OkUnit ELSE Err("base")]
    /\ UNCHANGED <<packVars, sel, batch, parsed, repo>>

NextRegenerate ==
    \/ \E csids \in SUBSET Csids : Regenerate(csids)
    \/ \E csids \in {<<1>>, <<2>>, <<1, 2>>, <<2, 1>>} : RegenerateMapping_get(csids)
    \/ \E io \in {"ok", "fails"} : RegenerateMapping_get_await(io)
    \/ \E csid \in Csids, id \in Values : RegenerateMapping_put(csid, id)
    \/ \E io \in {"ok", "fails"} : RegenerateMapping_put_await(io)

SpecRegenerate == Init /\ [][NextRegenerate]_vars

----------------------------------------------------------------------------
(* C20 *)

\* The ids in a sequence.
IdsOf(csids) == {csids[i] : i \in DOMAIN csids}

\* C20: the mapping ignores exactly the ids named by regenerate and not
\* put since.  A get returns no entry for an id that was owed a put when
\* the get was called, and does not forward it to the base; the other ids
\* are forwarded in the order asked, and for each of them the get returns
\* what the base holds.  A completed put has stored its value in the base
\* and, unless the id was named by regenerate again, a get of it returns
\* that value.
C20_IgnoreUntilPut ==
    /\ rmap.map.regenerate = rmap.owed
    /\ (rmap.op = "get" /\ rmap.res.tag = "Ok") =>
           LET g == rmap.last IN
           /\ \A c \in g.hidden : c \notin DOMAIN rmap.res.v /\ c \notin IdsOf(g.csids)
           /\ g.csids = SelectSeq(g.asked, LAMBDA c : c \notin g.hidden)
           /\ DOMAIN rmap.res.v \subseteq IdsOf(g.asked) \ g.hidden
           /\ \A c \in IdsOf(g.asked) \ g.hidden :
                  IF c \in DOMAIN rmap.map.base
                  THEN c \in DOMAIN rmap.res.v /\ rmap.res.v[c] = rmap.map.base[c]
                  ELSE c \notin DOMAIN rmap.res.v
    /\ (rmap.op = "put" /\ rmap.res.tag = "Ok") =>
           /\ rmap.last.csid \in DOMAIN rmap.map.base
           /\ rmap.map.base[rmap.last.csid] = rmap.last.id
           /\ rmap.last.csid \notin rmap.owed =>
                  Retain(rmap.map, <<rmap.last.csid>>) = <<rmap.last.csid>>

\* A get that was asked for an id the base holds a value for, while the id
\* was owed a put, and returned without it.
C20_Witness ==
    /\ rmap.op = "get"
    /\ rmap.res.tag = "Ok"
    /\ \E c \in rmap.last.hidden \cap IdsOf(rmap.last.asked) : c \in DOMAIN rmap.map.base
    /\ \E c \in IdsOf(rmap.last.asked) : c \in DOMAIN rmap.res.v

----------------------------------------------------------------------------
(* The default BonsaiDerivable::batch_derive: a loop over the changesets   *)
(* that awaits one single-item derivation at a time.  batch.started and    *)
(* batch.outcomes are ghost: the positions whose derivation was started,   *)
(* and what each derivation that completed returned, in order.             *)

MaxBatch == 3

\* A loop that starts the next derivation without awaiting the last one.
CanStart_Eager(b) == b.next <= Len(b.csids)

\* The loop calls derive_impl for the next changeset once nothing is awaited.
CanStart(b) == b.inflight = {} /\ b.next <= Len(b.csids)

\* derive_impl(...).await?: a failure ends the call with that error.
AfterFailure(b, e) == [b EXCEPT !.status = "err", !.res = Err(e)]

\* res.insert(csid, derived)
Insert(res, csid, derived) ==
    [c \in DOMAIN res \cup {csid} |-> IF c = csid THEN derived ELSE res[c]]

\* batch_derive(ctx, repo, csids, mapping, mode) is called.
BatchDerive(csids) ==
    /\ batch.op = "none"
    /\ batch' = [op |-> "batch_derive", csids |-> csids, next |-> 1, inflight |-> {},
                 map |-> <<>>, status |-> "running", res |-> OkUnit,
                 started |-> <<>>, outcomes |-> <<>>]
    /\ UNCHANGED <<packVars, sel, rmap, parsed, repo>>

\* The loop calls derive_impl for the next changeset.
DeriveStart ==
    /\ batch.op = "batch_derive"
    /\ batch.status = "running"
    /\ CanStart(batch)
    /\ batch' = [batch EXCEPT !.inflight = @ \cup {batch.next},
                              !.started = Append(@, batch.next),
                              !.next = @ + 1]
    /\ UNCHANGED <<packVars, sel, rmap, parsed, repo>>

\* The awaited derivation completes with a value, which the loop inserts.
DeriveOk(k, derived) ==
    /\ batch.op = "batch_derive"
    /\ batch.status = "running"
    /\ k \in batch.inflight
    /\ batch' = [batch EXCEPT !.inflight = @ \ {k},
                              !.map = Insert(@, batch.csids[k], derived),
                              !.outcomes = Append(@, [pos |-> k, tag |-> "Ok", v |-> derived])]
    /\ UNCHANGED <<packVars, sel, rmap, parsed, repo>>

\* The awaited derivation fails.
DeriveErr(k, e) ==
    /\ batch.op = "batch_derive"
    /\ batch.status = "running"
    /\ k \in batch.inflight
    /\ batch' = [AfterFailure(batch, e) EXCEPT
                     !.inflight = @ \ {k},
                     !.outcomes = Append(@, [pos |-> k, tag |-> "Err", v |-> e])]
    /\ UNCHANGED <<packVars, sel, rmap, parsed, repo>>

\* The loop is over: Ok(res).
BatchReturn ==
    /\ batch.op = "batch_derive"
    /\ batch.status = "running"
    /\ batch.inflight = {}
    /\ batch.next > Len(batch.csids)
    /\ batch' = [batch EXCEPT !.status = "ok", !.res = [tag |-> "Ok", v |-> batch.map]]
    /\ UNCHANGED <<packVars, sel, rmap, parsed, repo>>

NextBatch ==
    \/ \E csids \in SeqsUpTo(Csids, MaxBatch) : BatchDerive(csids)
    \/ DeriveStart
    \/ \E k \in 1..MaxBatch, derived \in Values : DeriveOk(k, derived)
    \/ \E k \in 1..MaxBatch : DeriveErr(k, "e" \o ToString(k))
    \/ BatchReturn

SpecBatch == Init /\ [][NextBatch]_vars

----------------------------------------------------------------------------
(* C21 *)

\* The value of the last derivation of changeset c that completed.
LastDerived(b, c) ==
    LET done == {i \in DOMAIN b.outcomes : b.csids[b.outcomes[i].pos] = c}
    IN  b.outcomes[CHOOSE i \in done : \A j \in done : j <= i].v

\* C21: the default batch_derive derives strictly one at a time in input
\* order: at most one derivation is in flight, position i + 1 is started
\* only after position i completed with a value, the first failure ends
\* the batch with that error and starts nothing more, and on success the
\* result maps every input changeset to its derived value.
C21_Sequential ==
    batch.op = "batch_derive" =>
        /\ Cardinality(batch.inflight) <= 1
        /\ batch.started = [i \in 1..Len(batch.started) |-> i]
        /\ \A i \in DOMAIN batch.outcomes : batch.outcomes[i].pos = i
        /\ Len(batch.started) = Len(batch.outcomes) + Cardinality(batch.inflight)
        /\ \A i \in DOMAIN batch.started :
               \A j \in 1..(batch.started[i] - 1) :
                   j \in DOMAIN batch.outcomes /\ batch.outcomes[j].tag = "Ok"
        /\ (\E i \in DOMAIN batch.outcomes : batch.outcomes[i].tag = "Err") =>
               LET f == Len(batch.outcomes) IN
               /\ batch.status = "err"
               /\ batch.res = Err(batch.outcomes[f].v)
               /\ Len(batch.started) = f
               /\ batch.inflight = {}
        /\ batch.status = "ok" =>
               /\ Len(batch.outcomes) = Len(batch.csids)
               /\ DOMAIN batch.res.v = {batch.csids[i] : i \in DOMAIN batch.csids}
               /\ \A c \in DOMAIN batch.res.v : batch.res.v[c] = LastDerived(batch, c)

\* The second of three derivations failed and ended the batch.
C21_Witness ==
    /\ batch.op = "batch_derive"
    /\ batch.status = "err"
    /\ Len(batch.csids) = 3
    /\ Len(batch.outcomes) = 2

----------------------------------------------------------------------------
(* The writer under adds on path "a" and the four lookups with keys on     *)
(* path "a" and on path "b".                                               *)

KeyDeltas ==
    {[key |-> Key_new("a", 1), base |-> NoKey, data |-> "d1"],
     [key |-> Key_new("a", 2), base |-> Key_new("a", 1), data |-> "d2"]}
KeyLookups == {Key_new("a", 1), Key_new("b", 1), Key_new("b", 2), Key_new("a", 3)}

NextKeys ==
    \/ New(TRUE, VersionOne)
    \/ \E d \in KeyDeltas : nAdds < MaxAdds /\ Add(d, FullMetadata)
    \/ \E k \in KeyLookups : GetDelta(k)
    \/ \E k \in KeyLookups : GetMeta(k)
    \/ \E k \in KeyLookups : GetDeltaChain(k)
    \/ \E k \in KeyLookups : GetMissing(<<StoreKey_HgId(k)>>)

SpecKeys == Init /\ [][NextKeys]_vars

----------------------------------------------------------------------------
(* C22 *)

\* C22 (as stated): keys are told apart by path and content id: a lookup
\* for a key that was not added under that path and content id treats the
\* key as absent, and a returned delta carries the path it was added under.
C22_Original ==
    /\ (ret.op \in {"get_delta", "get_meta", "get_delta_chain"} /\ ~HasKey(log, ret.key))
           => ret.res = OkNone
    /\ ret.op = "get_missing" =>
           ret.res = SelectSeq(ret.keys, LAMBDA k : ~HasKey(log, k.key))
    /\ (ret.op = "get_delta" /\ ret.res.tag = "Some") => HasKey(log, ret.res.delta.key)
    /\ (ret.op = "get_delta_chain" /\ ret.res.tag = "Some") =>
           \A i \in DOMAIN ret.res.chain : HasKey(log, ret.res.chain[i].key)

\* C22 (amended): the writer tells keys apart by content id alone: a lookup
\* treats a key as absent exactly when no delta was added for its content
\* id under any path, and a returned delta carries the path of the lookup.
C22_KeyedById ==
    /\ ret.op = "get_delta" =>
           ret.res = IF HasId(log, ret.key.hgid)
                     THEN [tag |-> "Some",
                           delta |-> Relabel(LastById(log, ret.key.hgid).delta, ret.key.path)]
                     ELSE OkNone
    /\ ret.op = "get_meta" =>
           ret.res = IF HasId(log, ret.key.hgid)
                     THEN [tag |-> "Some", meta |-> LastById(log, ret.key.hgid).meta]
                     ELSE OkNone
    /\ ret.op = "get_delta_chain" =>
           /\ ret.res = OkNone <=> ~HasId(log, ret.key.hgid)
           /\ ret.res.tag = "Some" =>
                  /\ ret.res.chain[1].key = ret.key
                  /\ \A i \in DOMAIN ret.res.chain :
                         /\ ret.res.chain[i].key.path = ret.key.path
                         /\ HasId(log, ret.res.chain[i].key.hgid)
    /\ ret.op = "get_missing" =>
           ret.res = SelectSeq(ret.keys, LAMBDA k : ~HasId(log, k.key.hgid))

\* A delta added on path "a" was looked up on path "b" and found.
C22_Witness ==
    /\ ret.op \in {"get_delta", "get_delta_chain"}
    /\ ret.key.path = "b"
    /\ ret.res.tag = "Some"
    /\ ~HasKey(log, ret.key)

----------------------------------------------------------------------------
(* C23 *)

\* C23: every entry of the in-memory index addresses exactly one whole
\* record: its offset is the number of bytes written before the record, at
\* least 1; its size is the length of the serialized record, not of the
\* payload; the record ends within the bytes written; the records of two
\* entries do not overlap; and the bytes written are 1 plus the serialized
\* sizes of all successful adds.
C23_IndexAddressesRecords ==
    st = "open" =>
        /\ inner.bytes_written = 1 + ByteLen(RecordsOf(log))
        /\ inner.bytes_written = ByteLen(Staged(inner, fs))
        /\ \A h \in DOMAIN inner.mem_index :
               LET l == inner.mem_index[h]
                   i == LastIdx(log, h)
                   rec == EntryBytes(log[i].delta, log[i].meta)
               IN  /\ HasId(log, h)
                   /\ l.offset = 1 + ByteLen(RecordsOf(SubSeq(log, 1, i - 1)))
                   /\ l.offset >= 1
                   /\ l.size = ByteLen(rec)
                   /\ l.size > DataLen(log[i].delta.data)
                   /\ l.offset + l.size <= inner.bytes_written
                   /\ ReadExact(Staged(inner, fs), l.offset, l.size)
                          = [tag |-> "Ok", data |-> rec]
        /\ \A h1, h2 \in DOMAIN inner.mem_index :
               h1 # h2 =>
                   LET a == inner.mem_index[h1]
                       b == inner.mem_index[h2]
                   IN  a.offset + a.size <= b.offset \/ b.offset + b.size <= a.offset

\* Three adds, one of them a second add for a content id, left two entries.
C23_Witness ==
    /\ st = "open"
    /\ Len(log) = 3
    /\ Cardinality(DOMAIN inner.mem_index) = 2

----------------------------------------------------------------------------
(* The writer, its published packs, and the reader opening pack files:     *)
(* those the writer published, and a pair of files of another origin whose *)
(* data file can be empty and whose index file can be missing.             *)

\* The name of the pack files that the writer did not publish.
ForeignStem == <<>>

\* Pack files of another origin appear in the directory.
Foreign(bytes, with_index) ==
    /\ UNCHANGED <<conc, others>>
    /\ st = "open"
    /\ fs' = LET d == Put(fs, PackName(ForeignStem, "datapack"), DataFile(bytes))
             IN  IF with_index
                 THEN Put(d, PackName(ForeignStem, "dataidx"), IndexFile(<<>>))
                 ELSE Remove(d, PackName(ForeignStem, "dataidx"))
    /\ ret' = [op |-> "foreign"]
    /\ UNCHANGED <<st, inner, tmpSeq, log, pubLog, nAdds, nFlush>>

\* DataPack::new(path), and len() of the pack when it opened.
Open(stem) ==
    /\ UNCHANGED <<conc, others>>
    /\ st = "open"
    /\ LET p == DataPack_new(fs, stem) IN
       ret' = [op |-> "open", stem |-> stem, res |-> p,
               len |-> IF p.tag = "Ok" THEN DataPack_len(p) ELSE None]
    /\ UNCHANGED <<st, inner, fs, tmpSeq, log, pubLog, nAdds, nFlush>>

NextOpen ==
    \/ New(TRUE, VersionOne)
    \/ \E k \in ReaderKeys :
           nAdds < MaxAdds /\ Add([key |-> k, base |-> NoKey, data |-> "d1"], DefaultMetadata)
    \/ \E io \in IoOutcomes : Flush(io)
    \/ \E bytes \in {<<>>, VersionByte(VersionOne)}, with_index \in BOOLEAN :
           Foreign(bytes, with_index)
    \/ \E stem \in DOMAIN pubLog \cup {ForeignStem} : Open(stem)

SpecOpen == Init /\ [][NextOpen]_vars

----------------------------------------------------------------------------
(* C24 *)

\* C24: every pack the writer published opens: its data file begins with
\* the version byte, so the open does not fail and len() is positive; and
\* an open fails with the empty-pack error exactly when the data file it
\* is given exists and has length zero.
C24_PublishedOpens ==
    /\ \A stem \in DOMAIN pubLog :
           LET p == DataPack_new(fs, stem) IN
           /\ p.tag = "Ok"
           /\ DataPack_len(p) > 0
           /\ SubSeq(p.mmap, 1, 1) = VersionByte(VersionOne)
           /\ p.version = VersionOne
    /\ ret.op = "open" =>
           /\ ret.stem \in DOMAIN pubLog => (ret.res.tag = "Ok" /\ ret.len > 0)
           /\ ret.res = Err("empty datapack")
                  <=> /\ PackName(ret.stem, "datapack") \in DOMAIN fs
                      /\ ByteLen(fs[PackName(ret.stem, "datapack")].bytes) = 0

\* A published pack was opened while an empty data file of another origin
\* lies next to it.
C24_Witness ==
    /\ ret.op = "open"
    /\ ret.stem \in DOMAIN pubLog
    /\ ret.res.tag = "Ok"
    /\ PackName(ForeignStem, "datapack") \in DOMAIN fs
    /\ fs[PackName(ForeignStem, "datapack")].bytes = <<>>

----------------------------------------------------------------------------
(* DataEntry::new over buffers that hold one record, whole or cut short    *)
(* after any field, whose declared path length and declared payload length *)
(* are exact or too large, parsed from its start, from its end and from    *)
(* past its end.                                                           *)

\* The declared payload lengths: exact, the largest that does not overflow
\* when added to the position of the payload (51), the smallest that does,
\* and the largest a u64 holds.
DeltaLens == {CompressedLen("d1"), U64Max - 51, U64Max - 50, U64Max}

ParseRecord(filename_len, delta_len) ==
    <<Tok("u16", "", filename_len, 2), Tok("path", "a", 0, 1),
      Tok("hgid", "", 1, HgIdLen), Tok("hgid", "", NullId, HgIdLen),
      Tok("u64", "", delta_len, 8), compress("d1")>>
    \o Metadata_write(FullMetadata)

ParseBufs ==
    {SubSeq(ParseRecord(fl, dl), 1, n) :
        fl \in {1, U16Max}, dl \in DeltaLens, n \in 0..Len(ParseRecord(1, 0))}

ParseOffsets(buf) == {0, ByteLen(buf), ByteLen(buf) + 1, U64Max}

\* DataEntry::new(buf, offset, version)
ParseEntry(build, buf, offset, version) ==
    /\ parsed.op = "none"
    /\ parsed' = [op |-> "new", build |-> build, buf |-> buf, offset |-> offset,
                  version |-> version,
                  res |-> DataEntry_new_in(build, buf, offset, version)]
    /\ UNCHANGED <<packVars, sel, rmap, batch, repo>>

NextParse ==
    \E build \in Builds, buf \in ParseBufs, version \in {VersionZero, VersionOne} :
        \E offset \in ParseOffsets(buf) : ParseEntry(build, buf, offset, version)

SpecParse == Init /\ [][NextParse]_vars

----------------------------------------------------------------------------
(* C25 *)

\* C25 (as stated): parsing a record never panics: whatever the buffer, the
\* offset and the declared lengths, also those whose sum with the position
\* overflows, DataEntry::new returns an entry that lies inside the buffer
\* or an error value.
C25_Original ==
    parsed.op = "new" =>
        /\ parsed.res.tag \in {"Ok", "Err"}
        /\ parsed.res.tag = "Ok" => parsed.res.next_offset <= ByteLen(parsed.buf)

----------------------------------------------------------------------------
(* The writer under adds and chain lookups when the staging file can lose  *)
(* its tail: a later read of a record past the cut fails.                  *)

FaultDeltas ==
    {[key |-> Key_new("a", 1), base |-> NoKey, data |-> "d1"],
     [key |-> Key_new("a", 2), base |-> Key_new("a", 1), data |-> "d2"]}

\* Where the file is cut: after the version byte, inside the first record,
\* and after the first record.
FaultCuts ==
    LET first == EntryBytes(CHOOSE d \in FaultDeltas : d.base # NoKey, DefaultMetadata)
    IN  {1, Len(first), 1 + Len(first)}

\* The staging file is cut after its first keep tokens.  The writer has
\* nothing buffered, so later reads see the file as it is.
Truncate(keep) ==
    /\ UNCHANGED <<conc, others>>
    /\ st = "open"
    /\ inner.pending = <<>>
    /\ keep < Len(fs[TmpName(inner.tmp)].bytes)
    /\ fs' = [fs EXCEPT ![TmpName(inner.tmp)] = DataFile(SubSeq(@.bytes, 1, keep))]
    /\ ret' = [op |-> "truncate"]
    /\ UNCHANGED <<st, inner, tmpSeq, log, pubLog, nAdds, nFlush>>

NextFault ==
    \/ New(TRUE, VersionOne)
    \/ \E d \in FaultDeltas : nAdds < MaxAdds /\ Add(d, DefaultMetadata)
    \/ \E k \in {Key_new("a", 1), Key_new("a", 2)} : GetDelta(k)
    \/ \E keep \in FaultCuts : Truncate(keep)
    \/ \E k \in {Key_new("a", 1), Key_new("a", 2), Key_new("a", 3)} : GetDeltaChain(k)

SpecFault == Init /\ [][NextFault]_vars

----------------------------------------------------------------------------
(* C26 *)

\* Why the loop of get_delta_chain stops: "end" at a full text, "absent"
\* at a key the index does not hold, "error" at a read that fails, with the
\* number of deltas read before.
RECURSIVE StopCause(_, _, _, _, _)
StopCause(in, dir, next_key, n, seen) ==
    IF next_key = NoKey THEN [why |-> "end", n |-> n]
    ELSE IF next_key \in seen THEN [why |-> "cycle", n |-> n]
    ELSE LET r == Inner_read_entry(in, dir, next_key) IN
         IF r.res.tag = "Some"
         THEN StopCause(r.inner, r.fs, r.res.delta.base, n + 1, seen \cup {next_key})
         ELSE [why |-> IF r.res.tag = "None" THEN "absent" ELSE "error", n |-> n]

\* C26 (as stated): a read that fails after at least one delta was read
\* does not produce the successful partial chain that an absent base
\* produces; the caller can tell the two apart.
C26_Original ==
    ret.op = "get_delta_chain" =>
        LET c == StopCause(inner, fs, ret.key, 0, {}) IN
        (c.why = "error" /\ c.n >= 1) => ret.res.tag # "Some"

----------------------------------------------------------------------------
(* One parsed entry and its delta() calls.  The entry keeps the            *)
(* decompressed payload in a cell, RefCell<Option<Rc<[u8]>>>, modelled as  *)
(* a sequence of at most one element.                                      *)

MaxDelta == 3

\* A payload whose length prefix does not match its block: lz4 rejects it.
Corrupt(d) == Tok("lz4", d, DataLen(d) + 1, CompressedLen(d))

\* decompress(&self.compressed_data), which can fail
try_decompress(tok) ==
    IF tok.i = DataLen(tok.s)
    THEN [tag |-> "Ok", bytes |-> decompress(tok)]
    ELSE Err("lz4")

\* A delta() that decompresses on every call and stores nothing.
DataEntry_delta_cached_NoStore(cell, compressed_data) ==
    LET r == try_decompress(compressed_data) IN
    [cell |-> cell, res |-> r, decompressed |-> 1]

\* DataEntry::delta on the cell: the new cell, the value returned and the
\* number of calls of decompress.
DataEntry_delta_cached(cell, compressed_data) ==
    IF cell = <<>>
    THEN LET r == try_decompress(compressed_data) IN
         IF r.tag = "Ok"
         THEN [cell |-> <<r.bytes>>, res |-> [tag |-> "Ok", bytes |-> r.bytes],
               decompressed |-> 1]
         ELSE [cell |-> cell, res |-> r, decompressed |-> 1]
    ELSE [cell |-> cell, res |-> [tag |-> "Ok", bytes |-> cell[1]], decompressed |-> 0]

EntryRecord(name, node, payload, meta) ==
    <<Tok("u16", "", 1, 2), Tok("path", name, 0, 1),
      Tok("hgid", "", node, HgIdLen), Tok("hgid", "", NullId, HgIdLen),
      Tok("u64", "", payload.n, 8), payload>>
    \o Metadata_write(meta)

EntryBufs ==
    {EntryRecord(name, node, payload, meta) :
        name \in {"a", "b"}, node \in {1, 2},
        payload \in {compress("d1"), compress("d2"), Corrupt("d1"), Corrupt("d2")},
        meta \in {DefaultMetadata, FullMetadata}}

\* DataEntry::new(buf, 0, 1) for a well-formed record
NewEntry(buf) ==
    /\ parsed.op = "none"
    /\ LET r == DataEntry_new(buf, 0, VersionOne) IN
       /\ r.tag = "Ok"
       /\ parsed' = [op |-> "entry", entry |-> r, data |-> <<>>, res |-> OkUnit,
                     first |-> OkUnit, calls |-> 0, decompressed |-> 0]
    /\ UNCHANGED <<packVars, sel, rmap, batch, repo>>

\* entry.delta()
CallDelta ==
    /\ parsed.op \in {"entry", "delta"}
    /\ parsed.calls < MaxDelta
    /\ LET r == DataEntry_delta_cached(parsed.data, parsed.entry.compressed_data) IN
       parsed' = [parsed EXCEPT !.op = "delta",
                                !.data = r.cell,
                                !.res = r.res,
                                !.first = IF parsed.calls = 0 THEN r.res ELSE @,
                                !.calls = @ + 1,
                                !.decompressed = @ + r.decompressed]
    /\ UNCHANGED <<packVars, sel, rmap, batch, repo>>

NextEntry ==
    \/ \E buf \in EntryBufs : NewEntry(buf)
    \/ CallDelta

SpecEntry == Init /\ [][NextEntry]_vars

----------------------------------------------------------------------------
(* C27 *)

\* C27: constructing an entry decompresses nothing and leaves the cell
\* empty.  When the payload is valid, the first delta() decompresses once
\* and stores the bytes, and every later call returns the same bytes with
\* no further decompression.  When the payload is corrupt, every delta()
\* returns the error, the cell stays empty and each call decompresses again.
C27_LazyCache ==
    /\ parsed.op = "entry" => parsed.data = <<>> /\ parsed.decompressed = 0
    /\ parsed.op = "delta" =>
         LET tok == parsed.entry.compressed_data
             valid == tok.i = DataLen(tok.s)
         IN
         /\ valid =>
              /\ parsed.res = [tag |-> "Ok", bytes |-> tok.s]
              /\ parsed.data = <<tok.s>>
              /\ parsed.decompressed = 1
         /\ ~valid =>
              /\ parsed.res.tag = "Err"
              /\ parsed.data = <<>>
              /\ parsed.decompressed = parsed.calls
         /\ parsed.res = parsed.first

C27_Witness ==
    /\ parsed.op = "delta"
    /\ parsed.calls = MaxDelta
    /\ parsed.res.tag = "Ok"
    /\ parsed.data # <<>>
    /\ parsed.decompressed = 1

----------------------------------------------------------------------------
(* Opening the commit store of a repository: open_dag_commits reads the    *)
(* file "requires" of the store and opens the backend that its lines name. *)

MaxLines == 3

DOUBLE_WRITE_REQUIREMENT == "doublewritechangelog"
GIT_STORE_REQUIREMENT == "git-store"
LAZY_STORE_REQUIREMENT == "lazychangelog"

GIT_BACKEND_LOG == "git"
LAZY_BACKEND_LOG == "lazy"
DOUBLE_WRITE_BACKEND_LOG == "doublewrite"
RUST_BACKEND_LOG == "rustrevlog"

FileReadError(what) == [tag |-> "Err", e |-> "FileReadError", what |-> what]

\* The lines a "requires" file is made of; the text of the file is the
\* lines joined by '\n', so a file has at least one line, possibly empty.
RequiresLines ==
    {GIT_STORE_REQUIREMENT, LAZY_STORE_REQUIREMENT, DOUBLE_WRITE_REQUIREMENT,
     "treestate", ""}

\* A store: whether its "requires" file can be read, and the lines of it.
Stores ==
    {[readable |-> FALSE, lines |-> <<"">>]}
    \cup {[readable |-> TRUE, lines |-> l] :
            l \in UNION {[1..n -> RequiresLines] : n \in 1..MaxLines}}

\* get_store_requirements: read_to_string, split('\n'), collect to a set
get_store_requirements(store) ==
    IF store.readable
    THEN [tag |-> "Ok", set |-> {store.lines[i] : i \in DOMAIN store.lines}]
    ELSE Err("io")

\* The constructors of the backends; io tells whether the files of the
\* backend can be opened.
open_git(io) ==
    IF io = "ok" THEN [tag |-> "Ok", backend |-> "GitSegmentedCommits"]
    ELSE FileReadError("gitdir")

open_hybrid(io) ==
    IF io = "ok" THEN [tag |-> "Ok", backend |-> "HybridCommits"] ELSE Err("hybrid")

open_double(io) ==
    IF io = "ok" THEN [tag |-> "Ok", backend |-> "DoubleWriteCommits"] ELSE Err("double")

RevlogCommits_new(io) ==
    IF io = "ok" THEN [tag |-> "Ok", backend |-> "RevlogCommits"] ELSE Err("revlog")

\* A selection that looks for the lazy marker before the git marker.
open_dag_commits_LazyFirst(store, io) ==
    LET store_requirements == get_store_requirements(store) IN
    IF store_requirements.tag # "Ok"
    THEN [res |-> FileReadError("requirements file"), logged |-> <<>>, opened |-> <<>>]
    ELSE IF LAZY_STORE_REQUIREMENT \in store_requirements.set
    THEN [res |-> open_hybrid(io), logged |-> <<LAZY_BACKEND_LOG>>, opened |-> <<"hybrid">>]
    ELSE IF GIT_STORE_REQUIREMENT \in store_requirements.set
    THEN [res |-> open_git(io), logged |-> <<GIT_BACKEND_LOG>>, opened |-> <<"git">>]
    ELSE IF DOUBLE_WRITE_REQUIREMENT \in store_requirements.set
    THEN [res |-> open_double(io), logged |-> <<DOUBLE_WRITE_BACKEND_LOG>>,
          opened |-> <<"double">>]
    ELSE [res |-> RevlogCommits_new(io), logged |-> <<RUST_BACKEND_LOG>>,
          opened |-> <<"revlog">>]

\* open_dag_commits: the value returned, the backend names logged and the
\* constructors called, in order.
open_dag_commits(store, io) ==
    LET store_requirements == get_store_requirements(store) IN
    IF store_requirements.tag # "Ok"
    THEN [res |-> FileReadError("requirements file"), logged |-> <<>>, opened |-> <<>>]
    ELSE IF GIT_STORE_REQUIREMENT \in store_requirements.set
    THEN [res |-> open_git(io), logged |-> <<GIT_BACKEND_LOG>>, opened |-> <<"git">>]
    ELSE IF LAZY_STORE_REQUIREMENT \in store_requirements.set
    THEN [res |-> open_hybrid(io), logged |-> <<LAZY_BACKEND_LOG>>, opened |-> <<"hybrid">>]
    ELSE IF DOUBLE_WRITE_REQUIREMENT \in store_requirements.set
    THEN [res |-> open_double(io), logged |-> <<DOUBLE_WRITE_BACKEND_LOG>>,
          opened |-> <<"double">>]
    ELSE [res |-> RevlogCommits_new(io), logged |-> <<RUST_BACKEND_LOG>>,
          opened |-> <<"revlog">>]

\* A repository whose store is given.
Store(store) ==
    /\ repo.op = "none"
    /\ repo' = [op |-> "store", store |-> store, io |-> "ok", res |-> OkUnit,
                logged |-> <<>>, opened |-> <<>>]
    /\ UNCHANGED <<packVars, sel, rmap, batch, parsed>>

\* open_dag_commits(store_path, metalog, eden_api)
OpenDagCommits(io) ==
    /\ repo.op = "store"
    /\ LET r == open_dag_commits(repo.store, io) IN
       repo' = [repo EXCEPT !.op = "open_dag_commits", !.io = io, !.res = r.res,
                            !.logged = r.logged, !.opened = r.opened]
    /\ UNCHANGED <<packVars, sel, rmap, batch, parsed>>

NextCommits ==
    \/ \E store \in Stores : Store(store)
    \/ \E io \in {"ok", "fails"} : OpenDagCommits(io)

SpecCommits == Init /\ [][NextCommits]_vars

----------------------------------------------------------------------------
(* C28 *)

\* C28: when the requirements file cannot be read, the call fails with the
\* file-read error of that file, and no backend name was logged and no
\* backend opened.  Otherwise exactly one backend name is logged and exactly
\* one backend is opened, chosen by the markers among the requirements in
\* the order git-store, lazychangelog, doublewritechangelog, and the revlog
\* backend when none is there; the call returns the backend opened, or the
\* error of its constructor.
C28_BackendByPriority ==
    repo.op = "open_dag_commits" =>
        IF ~repo.store.readable
        THEN /\ repo.res = FileReadError("requirements file")
             /\ repo.logged = <<>>
             /\ repo.opened = <<>>
        ELSE LET reqs == {repo.store.lines[i] : i \in DOMAIN repo.store.lines}
                 want == IF "git-store" \in reqs
                            THEN <<"git", "git", "GitSegmentedCommits">>
                         ELSE IF "lazychangelog" \in reqs
                            THEN <<"lazy", "hybrid", "HybridCommits">>
                         ELSE IF "doublewritechangelog" \in reqs
                            THEN <<"doublewrite", "double", "DoubleWriteCommits">>
                         ELSE <<"rustrevlog", "revlog", "RevlogCommits">>
             IN
             /\ repo.logged = <<want[1]>>
             /\ repo.opened = <<want[2]>>
             /\ repo.io = "ok" => repo.res = [tag |-> "Ok", backend |-> want[3]]
             /\ repo.io # "ok" => repo.res.tag = "Err"

C28_Witness ==
    /\ repo.op = "open_dag_commits"
    /\ repo.store.readable
    /\ \E i, j \in DOMAIN repo.store.lines :
          /\ i < j
          /\ repo.store.lines[i] = "lazychangelog"
          /\ repo.store.lines[j] = "git-store"
    /\ repo.res = [tag |-> "Ok", backend |-> "GitSegmentedCommits"]
    /\ repo.logged = <<"git">>

----------------------------------------------------------------------------
(* C29 *)

\* C29 (as stated): get_delta_chain returns and gives the lock back in
\* every state that adds can reach, also when the bases form a cycle; a
\* chain it returns holds each index entry at most once and is no longer
\* than the in-memory index.
C29_Original ==
    ret.op = "get_delta_chain" =>
        /\ ret.res.tag # "Diverges"
        /\ st # "hung"
        /\ ret.res.tag = "Some" =>
             /\ \A i, j \in DOMAIN ret.res.chain :
                    ret.res.chain[i].key.hgid = ret.res.chain[j].key.hgid => i = j
             /\ Len(ret.res.chain) <= Cardinality(DOMAIN inner.mem_index)

----------------------------------------------------------------------------
(* C30 *)

\* C30 (as stated): a publish that returns an error loses nothing: every
\* delta added to the writer before it is afterwards still held by the
\* writer, where a lookup finds it and a later publish takes it, or by a
\* published pack.
C30_Original ==
    [][(nFlush' = nFlush + 1 /\ ret'.op = "flush" /\ ret'.res.tag = "Err") =>
          \A i \in DOMAIN log :
              \/ get_delta(inner', fs', log[i].delta.key).res.tag = "Some"
              \/ \E stem \in DOMAIN pubLog' : HasKey(pubLog'[stem], log[i].delta.key)]_vars

----------------------------------------------------------------------------
(* C31 *)

\* C31 (as stated): a put whose base put fails leaves the mark: when put
\* was called for an id that was marked for regeneration and the base put
\* has failed, the id is marked afterwards, and a get does not forward it.
C31_Original ==
    (rmap.op = "put" /\ rmap.res.tag = "Err" /\ rmap.last.marked) =>
        /\ rmap.last.csid \in rmap.map.regenerate
        /\ Retain(rmap.map, <<rmap.last.csid>>) = <<>>

----------------------------------------------------------------------------
(* C32 *)

\* C32 (as stated): under every interleaving of regenerate, get and put, a
\* get returns no entry for an id whose value in the base was stored before
\* a regenerate call that named the id and that came before the get.
C32_Original ==
    (rmap.op = "get" /\ rmap.res.tag = "Ok") =>
        DOMAIN rmap.res.v \cap rmap.last.stale = {}

----------------------------------------------------------------------------
(* C33 *)

\* The streams a set contains: the identity of each and what it has yet to
\* produce.
Members(s) == {<<f.stream.id, f.stream.items>> : f \in s.inner}

\* C33: the set contains exactly the pushed streams whose end or failure
\* no poll has met.  A push adds one stream; a poll that is not ready
\* changes nothing; a poll that yields an item has taken it from the head
\* of one stream, which stays in the set, so len is unchanged; a poll that
\* returns an error has met it at the head of one stream and removes that
\* stream only; a poll that returns the end has removed at most one stream,
\* one with nothing left to produce.  The other streams stay in the set
\* with everything they have yet to produce.
C33_Membership ==
    [][LET had == Members(sel.set)
           has == Members(sel'.set)
       IN
       /\ len(sel'.set) = Cardinality({m[1] : m \in has})
       /\ sel'.op = "push" =>
              has = had \cup {<<Len(sel'.pushed), sel'.pushed[Len(sel'.pushed)]>>}
       /\ sel'.op = "poll" =>
              /\ sel'.res = NotReady => has = had
              /\ (sel'.res.tag = "Ok" /\ sel'.res.async = "Ready" /\ sel'.res.some) =>
                     /\ \E m \in had :
                            /\ m[2] # <<>>
                            /\ Head(m[2]) = Item(sel'.res.item)
                            /\ has = (had \ {m}) \cup {<<m[1], Tail(m[2])>>}
                     /\ len(sel'.set) = len(sel.set)
              /\ sel'.res.tag = "Err" =>
                     /\ \E m \in had :
                            /\ m[2] # <<>>
                            /\ Head(m[2]) = Error(sel'.res.e)
                            /\ has = had \ {m}
                     /\ len(sel'.set) = len(sel.set) - 1
              /\ sel'.res = ReadyNone =>
                     \/ had = {} /\ has = {}
                     \/ \E m \in had : m[2] = <<>> /\ has = had \ {m}
      ]_vars

\* A poll has returned the error of one stream, and a stream that has items
\* to yield is still in the set.
C33_Witness ==
    /\ sel.op = "poll"
    /\ sel.res.tag = "Err"
    /\ len(sel.set) = sel.before - 1
    /\ \E f \in sel.set.inner : f.stream.items # <<>> /\ Head(f.stream.items).tag = "Item"

====
